---- MODULE Spec2Model ----
(***************************************************************************)
(* A model of pysubtools2: the inline markup tag parser, the SSA position  *)
(* directive parser, the SubRip and MicroDVD parsers and the SubRip and    *)
(* MicroDVD exporters.                                                     *)
(*                                                                         *)
(* Python strings are sequences of one-character strings, so that len(),   *)
(* slicing, splitting and splicing are computed as the code computes them. *)
(* Optional[T] is a sequence of length at most one: None is << >>.         *)
(* A Time is its millisecond count.                                        *)
(***************************************************************************)
EXTENDS Integers, Sequences, FiniteSets, TLC

VARIABLES
    pc,          \* position of the driver: which call has been made
    tag_parser,  \* a SubtitleHTMLTagParser instance driven by tag events
    events,      \* the tag events handed to tag_parser so far
    parser,      \* a SubRipParser reading lines one by one, or a MicroDVDParser
    nlines,      \* number of lines handed to parser
    accepted,    \* history: the <<start, end>> of each time line accepted in TIME state
    input,       \* the document given to parse_text (export specification)
    subtitle,    \* the Subtitle returned by parse_text and handed to the exporters
    outputs,     \* the strings returned by the to_string calls so far
    emitted,     \* the list local to the last to_string call (lines / units)
    hashseed,    \* the process's string hash seed: fixes set iteration order
    injector,    \* an HTMLInjector, with the text and the result of its last inject
    times        \* the Time objects and the results of the operations on them

vars == <<pc, tag_parser, events, parser, nlines, accepted, input, subtitle,
          outputs, emitted, hashseed, injector, times>>

None == << >>
Some(v) == <<v>>

(***************************************************************************)
(* Python str and list primitives                                          *)
(***************************************************************************)

\* The line break and the printable ASCII characters (but the backquote), in
\* code point order.
CharTable ==
    <<"\n", " ", "!", "\"", "#", "$", "%", "&", "'", "(", ")", "*",
      "+", ",", "-", ".", "/", "0", "1", "2", "3", "4", "5", "6",
      "7", "8", "9", ":", ";", "<", "=", ">", "?", "@", "A", "B",
      "C", "D", "E", "F", "G", "H", "I", "J", "K", "L", "M", "N",
      "O", "P", "Q", "R", "S", "T", "U", "V", "W", "X", "Y", "Z",
      "[", "\\", "]", "^", "_", "a", "b", "c", "d", "e", "f",
      "g", "h", "i", "j", "k", "l", "m", "n", "o", "p", "q", "r",
      "s", "t", "u", "v", "w", "x", "y", "z", "{", "|", "}", "~">>

Ord(c) == CHOOSE i \in 1..Len(CharTable) : CharTable[i] = c

\* the digits of int() and of the hex formats, by value
HexDigits == <<"0", "1", "2", "3", "4", "5", "6", "7", "8", "9", "a", "b", "c", "d", "e", "f">>
IsDigit(c) == \E i \in 1..10 : HexDigits[i] = c

UpperChars ==
    <<"A", "B", "C", "D", "E", "F", "G", "H", "I", "J", "K", "L",
      "M", "N", "O", "P", "Q", "R", "S", "T", "U", "V", "W", "X", "Y", "Z">>
LowerChars ==
    <<"a", "b", "c", "d", "e", "f", "g", "h", "i", "j", "k", "l",
      "m", "n", "o", "p", "q", "r", "s", "t", "u", "v", "w", "x", "y", "z">>
IsUpperChar(c) == \E i \in 1..Len(UpperChars) : UpperChars[i] = c
IsLowerChar(c) == \E i \in 1..Len(LowerChars) : LowerChars[i] = c
LowerChar(c) ==
    IF IsUpperChar(c)
    THEN LowerChars[CHOOSE i \in 1..Len(UpperChars) : UpperChars[i] = c]
    ELSE c
UpperChar(c) ==
    IF IsLowerChar(c)
    THEN UpperChars[CHOOSE i \in 1..Len(LowerChars) : LowerChars[i] = c]
    ELSE c

\* str.lower(), str.upper()
Lower(s) == [i \in 1..Len(s) |-> LowerChar(s[i])]
Upper(s) == [i \in 1..Len(s) |-> UpperChar(s[i])]

IsSpace(c) == c \in {" ", "\n"}

\* s[a:b] with 0-based offsets, clamped as Python clamps them
Slice(s, a, b) ==
    LET lo == IF a < 0 THEN 0 ELSE a
        hi == IF b > Len(s) THEN Len(s) ELSE b
    IN  IF lo >= hi THEN << >> ELSE SubSeq(s, lo + 1, hi)

\* min(S) and max(S) of a set of integers, or none for the empty set
First(S, none) == IF S = {} THEN none ELSE CHOOSE i \in S : \A j \in S : i <= j
Last(S, none) == IF S = {} THEN none ELSE CHOOSE i \in S : \A j \in S : j <= i
\* pat occurs in s at 0-based offset i
MatchAt(s, i, pat) ==
    /\ i >= 0
    /\ i + Len(pat) <= Len(s)
    /\ \A k \in 1..Len(pat) : s[i + k] = pat[k]

\* str.find(pat, from): least 0-based offset >= from, or -1
Find(s, pat, from) == First({i \in from..(Len(s) - Len(pat)) : MatchAt(s, i, pat)}, -1)

Contains(s, pat) == Find(s, pat, 0) >= 0

\* str.strip()
LStripCount(s) == First({i \in 1..Len(s) : ~IsSpace(s[i])}, Len(s) + 1) - 1
RStripEnd(s) == Last({i \in 1..Len(s) : ~IsSpace(s[i])}, 0)
Strip(s) == Slice(s, LStripCount(s), RStripEnd(s))

\* "".join(parts) and sep.join(parts)
RECURSIVE Concat(_)
Concat(parts) ==
    IF parts = << >> THEN << >> ELSE Head(parts) \o Concat(Tail(parts))

RECURSIVE Join(_, _)
Join(parts, sep) ==
    IF parts = << >> THEN << >>
    ELSE IF Len(parts) = 1 THEN parts[1]
    ELSE parts[1] \o sep \o Join(Tail(parts), sep)

\* str.split(sep, maxsplit); maxsplit < 0 splits everywhere
RECURSIVE SplitOn(_, _, _)
SplitOn(s, sep, maxsplit) ==
    LET At(i) ==
            IF maxsplit = 0 \/ i < 0 THEN <<s>>
            ELSE <<Slice(s, 0, i)>>
                 \o SplitOn(Slice(s, i + Len(sep), Len(s)), sep,
                            IF maxsplit < 0 THEN maxsplit ELSE maxsplit - 1)
    IN  At(Find(s, sep, 0))

\* str.split() with no argument: the runs of non-whitespace
RECURSIVE SplitWhitespace(_)
SplitWhitespace(s) ==
    LET Runs(t) ==
            LET Cut(e) == <<Slice(t, 0, e)>> \o SplitWhitespace(Slice(t, e, Len(t)))
            IN  IF t = << >> THEN << >>
                ELSE Cut(First({i \in 1..Len(t) : IsSpace(t[i])}, Len(t) + 1) - 1)
    IN  Runs(Slice(s, LStripCount(s), Len(s)))

\* str.replace(old, new): every occurrence, left to right (old is not empty)
RECURSIVE ReplaceAll(_, _, _)
ReplaceAll(s, old, new) ==
    LET At(i) ==
            IF i < 0 THEN s
            ELSE Slice(s, 0, i) \o new \o ReplaceAll(Slice(s, i + Len(old), Len(s)), old, new)
    IN  At(Find(s, old, 0))

\* str.splitlines(): split at line breaks, no empty last line
SplitLines(s) ==
    LET Trim(parts) ==
            IF parts[Len(parts)] = << >> THEN SubSeq(parts, 1, Len(parts) - 1) ELSE parts
    IN  Trim(SplitOn(s, <<"\n">>, -1))

\* str.count(sub, start, end) for a one-character sub
CountChar(s, c, a, b) == Cardinality({i \in 1..Len(s) : a < i /\ i <= b /\ s[i] = c})

\* Sort keys are sequences of integers compared as Python compares tuples and
\* strings: element by element, a proper prefix first.
RECURSIVE KeyLess(_, _)
KeyLess(a, b) ==
    IF b = << >> THEN FALSE
    ELSE IF a = << >> THEN TRUE
    ELSE IF a[1] # b[1] THEN a[1] < b[1]
    ELSE KeyLess(Tail(a), Tail(b))

StrKey(s) == [i \in 1..Len(s) |-> Ord(s[i])]



\* The value of a run of digits of the base, single underscores between digits
\* skipped, as int() reads it.
RECURSIVE DigitsValue(_, _)
DigitsValue(d, base) ==
    IF d = << >> THEN 0
    ELSE IF d[Len(d)] = "_" THEN DigitsValue(SubSeq(d, 1, Len(d) - 1), base)
    ELSE base * DigitsValue(SubSeq(d, 1, Len(d) - 1), base)
         + First({k \in 1..16 : HexDigits[k] = LowerChar(d[Len(d)])}, 0) - 1

\* int(s) and int(s, 16): surrounding whitespace, an optional sign, then digits.
\* The result is Some(value), or None where int() raises ValueError.
ParseInt(s, base) ==
    LET Signed(t) ==
            LET Digs(d) ==
                    IF /\ d # << >>
                       /\ \A i \in 1..Len(d) :
                            \/ \E k \in 1..base : HexDigits[k] = LowerChar(d[i])
                            \/ d[i] = "_" /\ 1 < i /\ i < Len(d) /\ d[i - 1] # "_"
                    THEN Some(IF t[1] = "-" THEN -DigitsValue(d, base) ELSE DigitsValue(d, base))
                    ELSE None
            IN  Digs(IF t # << >> /\ t[1] \in {"+", "-"} THEN Tail(t) ELSE t)
    IN  Signed(Strip(s))

\* str(n) and f"{n:0w}" for n >= 0
RECURSIVE NatStr(_)
NatStr(n) ==
    IF n < 10 THEN <<HexDigits[n + 1]>> ELSE NatStr(n \div 10) \o <<HexDigits[(n % 10) + 1]>>

RECURSIVE PadLeft(_, _)
PadLeft(s, w) == IF Len(s) >= w THEN s ELSE PadLeft(<<"0">> \o s, w)

IntStr(n) == IF n < 0 THEN <<"-">> \o NatStr(-n) ELSE NatStr(n)
ZeroPad(n, w) == IF n < 0 THEN <<"-">> \o PadLeft(NatStr(-n), w - 1) ELSE PadLeft(NatStr(n), w)

\* list.sort(key=...) and sorted(): a stable sort of [key, val] items by key
RECURSIVE InsertKeyed(_, _)
InsertKeyed(sorted, x) ==
    IF sorted = << >> THEN <<x>>
    ELSE IF KeyLess(x.key, Head(sorted).key) THEN <<x>> \o sorted
    ELSE <<Head(sorted)>> \o InsertKeyed(Tail(sorted), x)

RECURSIVE SortKeyed(_)
SortKeyed(items) ==
    IF items = << >> THEN << >>
    ELSE InsertKeyed(SortKeyed(SubSeq(items, 1, Len(items) - 1)), items[Len(items)])

Values(items) == [i \in 1..Len(items) |-> items[i].val]

Reverse(xs) == [i \in 1..Len(xs) |-> xs[Len(xs) + 1 - i]]

(***************************************************************************)
(* subtitle/formatting.py: the formatting variants                         *)
(***************************************************************************)

Bold(start, end) == [type |-> "Bold", start |-> start, end |-> end]
Italic(start, end) == [type |-> "Italic", start |-> start, end |-> end]
Underline(start, end) == [type |-> "Underline", start |-> start, end |-> end]
Strikethrough(start, end) == [type |-> "Strikethrough", start |-> start, end |-> end]
\* r, g, b are kept as the 0..255 channel values v; the code stores v / 255 and
\* to_hex recovers int(v / 255 * 255.0) = v for every v in 0..255.
Color(start, end, r, g, b) ==
    [type |-> "Color", start |-> start, end |-> end, r |-> r, g |-> g, b |-> b]
FontFace(start, end, face) == [type |-> "FontFace", start |-> start, end |-> end, face |-> face]
TextSize(start, end, size) == [type |-> "TextSize", start |-> start, end |-> end, size |-> size]
RelativePosition(classifier) == [type |-> "RelativePosition", classifier |-> classifier]
AbsolutePosition(x1, x2, y1, y2) ==
    [type |-> "AbsolutePosition", x1 |-> x1, x2 |-> x2, y1 |-> y1, y2 |-> y2]

\* isinstance(f, Span) / isinstance(f, Position)
IsPosition(f) == f.type \in {"RelativePosition", "AbsolutePosition"}
IsSpan(f) == ~IsPosition(f)

HexByte(v) ==
    IF v < 0 THEN <<"-", HexDigits[1 - v]>>
    ELSE <<HexDigits[(v \div 16) + 1], HexDigits[(v % 16) + 1]>>

\* Color.from_hex: the three two-character slices, each parsed base 16; None
\* stands for the exception int() raises.
from_hex(start, end, color_string) ==
    LET Channels(cs) ==
            LET Build(rgb) ==
                    IF \E k \in 1..3 : rgb[k] = None THEN None
                    ELSE Some(Color(start, end, rgb[1][1], rgb[2][1], rgb[3][1]))
            IN  Build([k \in 1..3 |-> ParseInt(Slice(cs, 2 * k - 2, 2 * k), 16)])
    IN  Channels(ReplaceAll(color_string, <<"#">>, << >>))

\* Color.from_string: hex first; a string that is not hex is looked up as a
\* colour name, and the inputs of this model name no colour.
from_string(start, end, color_string) == from_hex(start, end, Lower(Strip(color_string)))

\* Color.to_hex
to_hex(f) == <<"#">> \o HexByte(f.r) \o HexByte(f.g) \o HexByte(f.b)

(***************************************************************************)
(* parsers/html_parsing.py: SubtitleHTMLTagParser                          *)
(***************************************************************************)

VALID_HTML_TAGS == {<<"b">>, <<"i">>, <<"u">>, <<"s">>, <<"f", "o", "n", "t">>}

TagSpan(tag, attributes, start, end) ==
    [tag |-> tag, attributes |-> attributes, start |-> start, end |-> end]

\* an attribute is [name, value] with value an Optional string
Attr(name, value) == [name |-> name, value |-> value]

\* SubtitleHTMLTagParser.__init__
NewTagParser ==
    [position |-> 0, text |-> << >>, text_parts |-> << >>, stack |-> << >>,
     spans |-> << >>, formattings |-> << >>]

handle_starttag(p, tag, attrs) ==
    [p EXCEPT !.stack = Append(@, TagSpan(tag, attrs, p.position, None))]

\* A mutant: an unmatched end tag is dropped instead of being put back.
handle_endtag_drop(p, tag) ==
    LET hits == {i \in 1..Len(p.stack) : p.stack[i].tag = tag}
        top == CHOOSE i \in hits : \A j \in hits : j <= i
    IN  IF hits # {}
        THEN [p EXCEPT !.stack = SubSeq(@, 1, top - 1) \o SubSeq(@, top + 1, Len(@)),
                       !.spans = Append(@, [p.stack[top] EXCEPT !.end = Some(p.position)])]
        ELSE p

\* A handle_endtag that also drops the frames opened after the closed one
handle_endtag_pop_above(p, tag) ==
    LET hits == {i \in 1..Len(p.stack) : p.stack[i].tag = tag}
        top == CHOOSE i \in hits : \A j \in hits : j <= i
        tag_str == <<"<", "/">> \o tag \o <<">">>
    IN  IF hits # {}
        THEN [p EXCEPT !.stack = SubSeq(@, 1, top - 1),
                       !.spans = Append(@, [p.stack[top] EXCEPT !.end = Some(p.position)])]
        ELSE [p EXCEPT !.position = @ + Len(tag_str),
                       !.text_parts = Append(@, tag_str)]
handle_endtag(p, tag) ==
    LET hits == {i \in 1..Len(p.stack) : p.stack[i].tag = tag}
        top == CHOOSE i \in hits : \A j \in hits : j <= i
        tag_str == <<"<", "/">> \o tag \o <<">">>
    IN  IF hits # {}
        THEN [p EXCEPT !.stack = SubSeq(@, 1, top - 1) \o SubSeq(@, top + 1, Len(@)),
                       !.spans = Append(@, [p.stack[top] EXCEPT !.end = Some(p.position)])]
        ELSE [p EXCEPT !.position = @ + Len(tag_str),
                       !.text_parts = Append(@, tag_str)]

handle_data(p, data) ==
    [p EXCEPT !.text_parts = Append(@, data), !.position = @ + Len(data)]

RECURSIVE _font_from_attributes(_, _, _)
_font_from_attributes(attributes, start, end) ==
    LET One(key, value) ==
            LET Sized(size) == IF size = None THEN << >> ELSE <<TextSize(start, end, size[1])>>
            IN  IF value = << >> THEN << >>
                ELSE IF key = <<"c", "o", "l", "o", "r">> THEN from_string(start, end, value)
                ELSE IF key = <<"f", "a", "c", "e">> THEN <<FontFace(start, end, value)>>
                ELSE IF key = <<"s", "i", "z", "e">> THEN Sized(ParseInt(value, 10))
                ELSE << >>
    IN  IF attributes = << >> THEN << >>
        ELSE One(Lower(Head(attributes).name),
                 IF Head(attributes).value = None THEN << >> ELSE Head(attributes).value[1])
             \o _font_from_attributes(Tail(attributes), start, end)

_init_valid_formatting(tag, attributes, start, end) ==
    IF tag = <<"f", "o", "n", "t">> THEN _font_from_attributes(attributes, start, end)
    ELSE IF tag = <<"b">> THEN <<Bold(start, end)>>
    ELSE IF tag = <<"i">> THEN <<Italic(start, end)>>
    ELSE IF tag = <<"u">> THEN <<Underline(start, end)>>
    ELSE IF tag = <<"s">> THEN <<Strikethrough(start, end)>>
    ELSE << >>

RECURSIVE _build_attributes(_)
_build_attributes(attributes) ==
    IF attributes = << >> THEN << >>
    ELSE LET a == Head(attributes)
         IN  (IF a.value # None
              THEN <<" ">> \o a.name \o <<"=", "\"">> \o a.value[1] \o <<"\"">>
              ELSE <<" ">> \o a.name)
             \o _build_attributes(Tail(attributes))

_build_start_tag(tag, attributes) == <<"<">> \o tag \o _build_attributes(attributes) \o <<">">>

\* A mutant: a span at or after the insertion point has only its start moved.
ShiftSpanStartOnly(f, position, tag_length) ==
    IF IsSpan(f) /\ f.start >= position
    THEN [f EXCEPT !.start = @ + tag_length]
    ELSE IF IsSpan(f) /\ f.end >= position
    THEN [f EXCEPT !.end = @ + tag_length]
    ELSE f

\* A shift that moves a span only when it starts after the insertion point
ShiftSpanStrict(f, position, tag_length) ==
    IF IsSpan(f) /\ f.start > position
    THEN [f EXCEPT !.start = @ + tag_length, !.end = @ + tag_length]
    ELSE IF IsSpan(f) /\ f.end > position
    THEN [f EXCEPT !.end = @ + tag_length]
    ELSE f
\* close, the body of "Update indices of affected formatting spans"
ShiftSpan(f, position, tag_length) ==
    IF IsSpan(f) /\ f.start >= position
    THEN [f EXCEPT !.start = @ + tag_length, !.end = @ + tag_length]
    ELSE IF IsSpan(f) /\ f.end >= position
    THEN [f EXCEPT !.end = @ + tag_length]
    ELSE f

\* close, "We put invalid tags back into the text": tags is the sorted list
RECURSIVE PutBack(_, _)
PutBack(tf, tags) ==
    IF tags = << >> THEN tf
    ELSE LET position == Head(tags).position
             tag == Head(tags).tag
         IN  PutBack([text |-> Slice(tf.text, 0, position) \o tag
                                \o Slice(tf.text, position, Len(tf.text)),
                      formattings |-> [i \in 1..Len(tf.formattings) |->
                                          ShiftSpan(tf.formattings[i], position, Len(tag))]],
                     Tail(tags))

RECURSIVE SpanFormattings(_)
SpanFormattings(spans) ==
    IF spans = << >> THEN << >>
    ELSE LET span == Head(spans)
         IN  (IF span.end = None THEN << >>
              ELSE _init_valid_formatting(span.tag, span.attributes, span.start, span.end[1]))
             \o SpanFormattings(Tail(spans))

RECURSIVE InvalidTags(_)
InvalidTags(spans) ==
    LET Item(span, start_tag) ==
            [key |-> <<span.start>> \o StrKey(start_tag),
             val |-> [position |-> span.start, tag |-> start_tag]]
    IN  IF spans = << >> THEN << >>
        ELSE (IF Head(spans).end = None
              THEN <<Item(Head(spans), _build_start_tag(Head(spans).tag, Head(spans).attributes))>>
              ELSE << >>)
             \o InvalidTags(Tail(spans))

\* SubtitleHTMLTagParser.close (the tokenizer has already flushed its data).
\* sorted(invalid_tags, reverse=True): equal items are equal tuples, so the
\* reverse of the ascending sort is the descending sort.
HTMLTagParser_close(p) ==
    LET Closed(closed) ==
            LET With(spans) ==
                    LET Done(done) ==
                            [p EXCEPT !.stack = closed, !.spans = spans,
                                      !.text = done.text, !.formattings = done.formattings]
                    IN  Done(PutBack([text |-> Concat(p.text_parts),
                                      formattings |-> SpanFormattings(spans)],
                                     Reverse(Values(SortKeyed(InvalidTags(spans))))))
            IN  With(p.spans \o closed)
    IN  Closed([i \in 1..Len(p.stack) |->
                   IF p.stack[i].tag \in VALID_HTML_TAGS
                   THEN [p.stack[i] EXCEPT !.end = Some(p.position)]
                   ELSE p.stack[i]])

\* SubtitleHTMLTagParser.clear
HTMLTagParser_clear(p) == NewTagParser


(***************************************************************************)
(* html.parser.HTMLParser.feed + close, as SubtitleHTMLTagParser inherits  *)
(* them: the tokenizer that turns markup into the callbacks above.  It is  *)
(* modelled for start tags <name attr="value" ...> (values quoted or not), *)
(* end tags </name> and text; a "<" that opens no complete tag is text.    *)
(***************************************************************************)

IsNameChar(c) == IsUpperChar(c) \/ IsLowerChar(c) \/ IsDigit(c)

\* the attributes of a start tag, from the text between the tag name and ">"
RECURSIVE TagAttributes(_)
TagAttributes(s) ==
    LET Named(t) ==
            LET After(name, rest) ==
                    LET Quoted(close) ==
                            <<Attr(name, Some(Slice(rest, 2, close)))>>
                            \o TagAttributes(Slice(rest, close + 1, Len(rest)))
                        Bare(stop) ==
                            <<Attr(name, Some(Slice(rest, 1, stop)))>>
                            \o TagAttributes(Slice(rest, stop, Len(rest)))
                    IN  IF Len(rest) >= 2 /\ rest[1] = "=" /\ rest[2] = "\""
                           /\ \E i \in 3..Len(rest) : rest[i] = "\""
                        THEN Quoted(First({i \in 3..Len(rest) : rest[i] = "\""}, 0) - 1)
                        ELSE IF rest # << >> /\ rest[1] = "="
                        THEN Bare(First({i \in 1..Len(rest) : IsSpace(rest[i])}, Len(rest) + 1) - 1)
                        ELSE <<Attr(name, None)>> \o TagAttributes(rest)
                Cut(n) == After(Lower(Slice(t, 0, n)), Slice(t, n, Len(t)))
            IN  IF t = << >> THEN << >>
                ELSE Cut(First({i \in 1..Len(t) : IsSpace(t[i]) \/ t[i] = "="}, Len(t) + 1) - 1)
    IN  Named(Slice(s, LStripCount(s), Len(s)))

\* the callbacks feed and close make for text, in order
RECURSIVE Tokens(_)
Tokens(text) ==
    LET DataEv(data) == [kind |-> "data", data |-> data]
        At(lt) ==
            LET Tag(gt) ==
                    LET Start(body, n) ==
                            [kind |-> "start", tag |-> Lower(Slice(body, 0, n)),
                             attrs |-> TagAttributes(Slice(body, n, Len(body)))]
                    IN  IF gt >= 0 /\ lt + 2 < Len(text) /\ text[lt + 2] = "/"
                           /\ IsNameChar(text[lt + 3])
                        THEN <<[kind |-> "end", tag |-> Lower(Strip(Slice(text, lt + 2, gt)))]>>
                        ELSE IF gt >= 0 /\ lt + 1 < Len(text) /\ IsNameChar(text[lt + 2])
                        THEN <<Start(Slice(text, lt + 1, gt),
                                     First({i \in 1..(gt - lt - 1) : IsSpace(text[lt + 1 + i])},
                                           gt - lt) - 1)>>
                        ELSE << >>
                Rest(tag, gt) ==
                    IF tag # << >>
                    THEN (IF lt > 0 THEN <<DataEv(Slice(text, 0, lt))>> ELSE << >>)
                         \o tag \o Tokens(Slice(text, gt + 1, Len(text)))
                    ELSE <<DataEv(Slice(text, 0, lt + 1))>> \o Tokens(Slice(text, lt + 1, Len(text)))
                Closing(gt) == Rest(Tag(gt), gt)
            IN  IF lt < 0 THEN <<DataEv(text)>> ELSE Closing(Find(text, <<">">>, lt + 1))
    IN  IF text = << >> THEN << >> ELSE At(Find(text, <<"<">>, 0))

RECURSIVE HandleAll(_, _)
HandleAll(p, evs) ==
    IF evs = << >> THEN p
    ELSE LET ev == Head(evs)
         IN  HandleAll(IF ev.kind = "start" THEN handle_starttag(p, ev.tag, ev.attrs)
                       ELSE IF ev.kind = "end" THEN handle_endtag(p, ev.tag)
                       ELSE handle_data(p, ev.data),
                       Tail(evs))

\* html_parser.feed(text); html_parser.close()
FeedAndClose(p, text) == HTMLTagParser_close(HandleAll(p, Tokens(text)))

(***************************************************************************)
(* parsers/subrip.py: SubtitleSSATagParser                                 *)
(***************************************************************************)

\* SSA_TAG_REGEX = {\\*([\S:][\S]+)} matched at 0-based offset i: the match as
\* [from, to, tag] (to exclusive), or None.  The backslashes are taken greedily,
\* then the longest run of non-space characters that still ends in "}".
RECURSIVE SSAMatchWith(_, _, _)
SSAMatchWith(text, i, b) ==
    LET Group(g) ==
            LET Run(run) ==
                    LET Ends(e) ==
                            IF e >= 0 THEN Some([from |-> i, to |-> e + 1, tag |-> Slice(text, g, e)])
                            ELSE IF b = 0 THEN None
                            ELSE SSAMatchWith(text, i, b - 1)
                    IN  Ends(Last({e \in (g + 2)..(run - 1) : text[e + 1] = "}"}, -1))
            IN  Run(First({k \in (g + 1)..Len(text) : IsSpace(text[k])}, Len(text) + 1) - 1)
    IN  Group(i + 1 + b)

SSAMatchAt(text, i) ==
    IF i < Len(text) /\ text[i + 1] = "{"
    THEN SSAMatchWith(text, i,
                      First({k \in (i + 2)..Len(text) : text[k] # "\\"}, Len(text) + 1) - i - 2)
    ELSE None

\* SSA_TAG_REGEX.finditer(text) from offset i on
RECURSIVE SSAMatches(_, _)
SSAMatches(text, i) ==
    LET From(k) ==
            LET Got(m) == m \o SSAMatches(text, m[1].to)
            IN  IF k < 0 THEN << >> ELSE Got(SSAMatchAt(text, k))
    IN  From(First({k \in i..(Len(text) - 1) : SSAMatchAt(text, k) # None}, -1))

\* SSA_TAG_REGEX.sub("", text)
RECURSIVE SSARemove(_, _, _)
SSARemove(text, ms, i) ==
    IF ms = << >> THEN Slice(text, i, Len(text))
    ELSE Slice(text, i, Head(ms).from) \o SSARemove(text, Tail(ms), Head(ms).to)

\* SubtitleSSATagParser.feed with handle_tag: [text, position]; the position is
\* that of the first {\anN} whose N is a PositionClassifier value (1..9).
SSA_feed(text) ==
    LET AN == <<"a", "n">>
        Found(ms) ==
            LET Index(k) == ParseInt(ReplaceAll(ms[k].tag, AN, << >>), 10)
                Handled(k) ==
                    /\ Slice(ms[k].tag, 0, 2) = AN
                    /\ Len(ms[k].tag) > 2
                    /\ \A j \in 3..Len(ms[k].tag) : IsDigit(ms[k].tag[j])
                Positions(indices) ==
                    LET First9(k) ==
                            IF k = 0 THEN None ELSE Some(RelativePosition(indices[k][1]))
                    IN  First9(First({k \in 1..Len(ms) :
                                        /\ Handled(k)
                                        /\ indices[k] # None
                                        /\ indices[k][1] \in 1..9}, 0))
            IN  [text |-> SSARemove(text, ms, 0),
                 position |-> Positions([k \in 1..Len(ms) |-> Index(k)])]
    IN  Found(SSAMatches(text, 0))


(***************************************************************************)
(* subtitle/time.py and subtitle/subtitle.py.  A Time is its milliseconds. *)
(***************************************************************************)

from_human_time(milliseconds, seconds, minutes, hours) ==
    milliseconds + hours * 3600000 + minutes * 60000 + seconds * 1000

SubtitleUnit(start, end, text, formattings) ==
    [start |-> start, end |-> end, text |-> text, formattings |-> formattings]

(***************************************************************************)
(* parsers/subrip.py: SubRipParser.  A method that can raise returns       *)
(* [self, raised]: the parser as the call left it, and whether the call    *)
(* ended in an exception.                                                  *)
(***************************************************************************)

NewSubRipParser ==
    [subtitle |-> << >>, state |-> "INDEX", start_time |-> None, end_time |-> None,
     formattings |-> << >>, raw_text |-> << >>, temp_text |-> << >>]

\* the index, or None where int(line) raises ValueError
_parse_index(line) == ParseInt(line, 10)

\* the Time, or None where the unpacking or an int() raises ValueError
_parse_timestamp(timestamp) ==
    LET Hms(hms) ==
            LET Sms(sms) ==
                    LET Parts(parts) ==
                            LET Ints(n) ==
                                    IF \E k \in 1..4 : n[k] = None THEN None
                                    ELSE Some(from_human_time(n[4][1], n[3][1], n[2][1], n[1][1]))
                            IN  IF Len(parts) # 2 THEN None
                                ELSE Ints([k \in 1..4 |->
                                             ParseInt(<<hms[1], hms[2], parts[1],
                                                        Slice(parts[2], 0, 3)>>[k], 10)])
                    IN  Parts(SplitOn(sms, IF \E i \in 1..Len(sms) : sms[i] = ","
                                           THEN <<",">> ELSE <<".">>, 1))
            IN  IF Len(hms) # 3 THEN None ELSE Sms(hms[3])
    IN  Hms(SplitOn(timestamp, <<":">>, 2))

_formatting_already_exists(formattings, formatting) ==
    \E k \in 1..Len(formattings) :
        formattings[k].type = formatting.type /\ formattings[k] = formatting

\* appends to self.formattings itself and returns None on every path
_parse_absolute_position(self, line) ==
    LET LABELS == << <<"X", "1">>, <<"X", "2">>, <<"Y", "1">>, <<"Y", "2">> >>
        Pairs(pairs) ==
            LET Values4(labelled, ints) ==
                    LET last(n) == ints[Last({k \in labelled : pairs[k][1] = LABELS[n]}, 0)][1]
                    IN  IF \E k \in labelled : ints[k] = None
                        THEN [self |-> self, raised |-> TRUE]
                        ELSE IF \E n \in 1..4 : \A k \in labelled : pairs[k][1] # LABELS[n]
                        THEN [self |-> self, raised |-> FALSE]
                        ELSE [self |-> [self EXCEPT !.formattings =
                                          Append(@, AbsolutePosition(last(1), last(2),
                                                                     last(3), last(4)))],
                              raised |-> FALSE]
            IN  Values4({k \in 1..Len(pairs) :
                            Len(pairs[k]) = 2 /\ \E n \in 1..4 : pairs[k][1] = LABELS[n]},
                        [k \in 1..Len(pairs) |->
                            IF Len(pairs[k]) = 2 THEN ParseInt(pairs[k][2], 10) ELSE None])
        Coordinates(coordinates) ==
            Pairs([k \in 1..Len(coordinates) |-> SplitOn(coordinates[k], <<":">>, 1)])
    IN  Coordinates(SplitWhitespace(line))

\* self.formattings.extend(filter(not already exists, found)): the filter is
\* lazy, so each item is tested against the list as extended so far
RECURSIVE ExtendNew(_, _)
ExtendNew(formattings, found) ==
    IF found = << >> THEN formattings
    ELSE ExtendNew(IF _formatting_already_exists(formattings, Head(found)) THEN formattings
                   ELSE Append(formattings, Head(found)),
                   Tail(found))

_parse_unit_text(self, text) ==
    LET AfterSSA(ssa) ==
            LET AfterHTML(html_parser, formattings) ==
                    [self EXCEPT !.formattings = ExtendNew(formattings, html_parser.formattings),
                                 !.raw_text = html_parser.text]
            IN  AfterHTML(FeedAndClose(NewTagParser, ssa.text),
                          IF ssa.position # None
                             /\ ~_formatting_already_exists(self.formattings, ssa.position[1])
                          THEN Append(self.formattings, ssa.position[1])
                          ELSE self.formattings)
    IN  AfterSSA(SSA_feed(Strip(text)))

\* the variant that forgets to reset the times after storing
_store_unit_keep_times(self) ==
    LET Store(parsed) ==
            [parsed EXCEPT !.subtitle =
                               IF parsed.start_time # None /\ parsed.end_time # None
                               THEN Append(@, SubtitleUnit(parsed.start_time[1], parsed.end_time[1],
                                                           parsed.raw_text, parsed.formattings))
                               ELSE @,
                           !.raw_text = << >>, !.temp_text = << >>, !.formattings = << >>]
    IN  Store(_parse_unit_text([self EXCEPT !.raw_text = @ \o self.temp_text],
                               self.raw_text \o self.temp_text))

_store_unit(self) ==
    LET Store(parsed) ==
            [parsed EXCEPT !.subtitle =
                               IF parsed.start_time # None /\ parsed.end_time # None
                               THEN Append(@, SubtitleUnit(parsed.start_time[1], parsed.end_time[1],
                                                           parsed.raw_text, parsed.formattings))
                               ELSE @,
                           !.start_time = None, !.end_time = None,
                           !.raw_text = << >>, !.temp_text = << >>, !.formattings = << >>]
    IN  Store(_parse_unit_text([self EXCEPT !.raw_text = @ \o self.temp_text],
                               self.raw_text \o self.temp_text))

\* An _on_index_state that drops a line that is no index
_on_index_state_drop(self, line) ==
    IF _parse_index(line) = None THEN self
    ELSE IF self.start_time # None /\ self.end_time # None
    THEN _store_unit([self EXCEPT !.state = "TIME"])
    ELSE [self EXCEPT !.state = "TIME"]
_on_index_state(self, line) ==
    IF _parse_index(line) # None
    THEN IF self.start_time # None /\ self.end_time # None
         THEN _store_unit([self EXCEPT !.state = "TIME"])
         ELSE [self EXCEPT !.state = "TIME"]
    ELSE [self EXCEPT !.temp_text = @ \o line \o <<"\n">>]

_on_time_state(self, line) ==
    LET Stamps(timestamps) ==
            LET Times(t, upper_end_timestamp) ==
                    LET Positioned(r) ==
                            IF r.raised THEN r
                            ELSE [self |-> [r.self EXCEPT !.state = "CONTENT"], raised |-> FALSE]
                    IN  IF t[1] = None THEN [self |-> self, raised |-> TRUE]
                        ELSE IF t[2] = None
                        THEN [self |-> [self EXCEPT !.start_time = t[1]], raised |-> TRUE]
                        ELSE IF \E i \in 1..Len(upper_end_timestamp) : upper_end_timestamp[i] = "X"
                        THEN Positioned(_parse_absolute_position(
                                 [self EXCEPT !.start_time = t[1], !.end_time = t[2]],
                                 upper_end_timestamp))
                        ELSE [self |-> [self EXCEPT !.start_time = t[1], !.end_time = t[2],
                                                    !.state = "CONTENT"],
                              raised |-> FALSE]
            IN  IF Len(timestamps) < 2 THEN [self |-> self, raised |-> FALSE]
                ELSE Times([k \in 1..2 |-> _parse_timestamp(timestamps[k])],
                           Upper(timestamps[2]))
    IN  Stamps(SplitOn(line, <<"-", "-", ">">>, 1))

\* An _on_content_state that takes every line as the end of the content
_on_content_state_any_line(self, line) ==
    [self EXCEPT !.temp_text = <<"\n">>, !.state = "INDEX"]
_on_content_state(self, line) ==
    IF Len(line) = 0
    THEN [self EXCEPT !.temp_text = <<"\n">>, !.state = "INDEX"]
    ELSE [self EXCEPT !.raw_text = @ \o line \o <<"\n">>]

\* one turn of the loop of parse_text on one line of the text
ParseLine(self, rawline) ==
    LET Turn(line) ==
            IF self.state = "INDEX" THEN [self |-> _on_index_state(self, line), raised |-> FALSE]
            ELSE IF self.state = "TIME" THEN _on_time_state(self, line)
            ELSE [self |-> _on_content_state(self, line), raised |-> FALSE]
    IN  Turn(Strip(rawline))

\* the variant without the final flush
ParseEndNoFlush(self) == self

\* the end of parse_text, after the loop
ParseEnd(self) ==
    IF self.start_time # None /\ self.end_time # None THEN _store_unit(self) ELSE self

RECURSIVE ParseLines(_, _)
ParseLines(self, srt_lines) ==
    LET Then(r) == IF r.raised THEN r ELSE ParseLines(r.self, Tail(srt_lines))
    IN  IF srt_lines = << >> THEN [self |-> ParseEnd(self), raised |-> FALSE]
        ELSE Then(ParseLine(self, Head(srt_lines)))

\* SubRipParser.parse_text: [self, raised]; the return value is self.subtitle
SubRip_parse_text(self, srt_text) == ParseLines(self, SplitLines(srt_text))

(***************************************************************************)
(* exporters/subrip.py: SubRipExporter                                     *)
(***************************************************************************)

\* A human_time whose minutes are the whole minutes of the time, hours included
human_time_whole_minutes(milliseconds) ==
    [hours |-> milliseconds \div 3600000,
     minutes |-> milliseconds \div 60000,
     seconds |-> (milliseconds % 60000) \div 1000,
     milliseconds |-> milliseconds % 1000]
\* Time.human_time
human_time(milliseconds) ==
    [hours |-> milliseconds \div 3600000,
     minutes |-> (milliseconds % 3600000) \div 60000,
     seconds |-> (milliseconds % 60000) \div 1000,
     milliseconds |-> milliseconds % 1000]

_time_to_string(time) ==
    LET Fmt(h) ==
            ZeroPad(h.hours, 2) \o <<":">> \o ZeroPad(h.minutes, 2) \o <<":">>
            \o ZeroPad(h.seconds, 2) \o <<",">> \o ZeroPad(h.milliseconds, 3)
    IN  Fmt(human_time(time))

\* SubtitleUnit.get_formatting_by_type: the first formatting of the class
get_formatting_by_type(unit, type) ==
    LET At(k) == IF k = 0 THEN None ELSE Some(unit.formattings[k])
    IN  At(First({k \in 1..Len(unit.formattings) : unit.formattings[k].type = type}, 0))

_construct_time_line(subtitle_unit) ==
    LET Place(a) ==
            <<" ", " ", "X", "1", ":">> \o ZeroPad(a.x1, 3) \o <<" ", "X", "2", ":">> \o ZeroPad(a.x2, 3)
            \o <<" ", "Y", "1", ":">> \o ZeroPad(a.y1, 3) \o <<" ", "Y", "2", ":">> \o ZeroPad(a.y2, 3)
        Line(ts, absolute_position) ==
            ts[1] \o <<" ", "-", "-", ">", " ">> \o ts[2]
            \o (IF absolute_position = None THEN << >> ELSE Place(absolute_position[1]))
    IN  Line([k \in 1..2 |->
                 _time_to_string(<<subtitle_unit.start, subtitle_unit.end>>[k])],
             get_formatting_by_type(subtitle_unit, "AbsolutePosition"))

\* Color.get_attributes, FontFace.get_attributes, TextSize.get_attributes
get_attributes(f) ==
    CASE f.type = "Color" -> <<"c", "o", "l", "o", "r", "=", "\"">> \o to_hex(f) \o <<"\"">>
      [] f.type = "FontFace" -> <<"f", "a", "c", "e", "=", "\"">> \o f.face \o <<"\"">>
      [] f.type = "TextSize" -> <<"s", "i", "z", "e", "=">> \o IntStr(f.size)
      [] OTHER -> << >>

\* SubRipExporter._construct_content_line.  Every formatting that is neither
\* a font formatting nor a Position is a Bold, Italic, Underline or
\* Strikethrough, and the loop over those skips each one (the isinstance test
\* against the keys of HTML_TAG_MAPS), so html_tags holds the font tags only.
\* 7 is len(FORMATTING_PRIORITIES).
_construct_content_line(subtitle_unit) ==
    LET SameSpan(f, g) == f.start = g.start /\ f.end = g.end
        StartTag(attrs) ==
            <<"<", "f", "o", "n", "t">> \o Concat([i \in 1..Len(attrs) |-> <<" ">> \o attrs[i]]) \o <<">">>
        Sorted(group) ==
            Values(SortKeyed([i \in 1..Len(group) |->
                LET Item(a) == [key |-> StrKey(a), val |-> a]
                IN  Item(get_attributes(group[i]))]))
        GroupTags(fonts, k) ==
            << [key |-> <<fonts[k].start, 0>>,
                val |-> StartTag(Sorted(SelectSeq(fonts, LAMBDA f : SameSpan(f, fonts[k]))))],
               [key |-> <<fonts[k].end, 7>>, val |-> <<"<", "/", "f", "o", "n", "t", ">">>] >>
        font_groups(fonts) ==
            SelectSeq([k \in 1..Len(fonts) |-> k],
                      LAMBDA k : \A j \in 1..(k - 1) : ~SameSpan(fonts[j], fonts[k]))
        html_tags(fonts) ==
            LET Tags(groups) == Concat([n \in 1..Len(groups) |-> GroupTags(fonts, groups[n])])
            IN  SortKeyed(Tags(font_groups(fonts)))
        RECURSIVE Insert(_, _)
        Insert(text, tags) ==
            LET Put(tag) ==
                    Insert(Slice(text, 0, tag.key[1]) \o tag.val
                               \o Slice(text, tag.key[1], Len(text)),
                           SubSeq(tags, 1, Len(tags) - 1))
            IN  IF tags = << >> THEN text ELSE Put(tags[Len(tags)])
        Positioned(text, position) ==
            IF position = None THEN text
            ELSE <<"{", "\\", "a", "n">> \o IntStr(position[1].classifier) \o <<"}">> \o text
    IN  Positioned(
            Insert(subtitle_unit.text,
                   html_tags(SelectSeq(subtitle_unit.formattings,
                                       LAMBDA f : f.type \in {"Color", "FontFace", "TextSize"}))),
            get_formatting_by_type(subtitle_unit, "RelativePosition"))

\* A to_string that does not sort would leave the list as it is
KeepOrder(units) == units

\* An unstable sort by start may leave cues of equal start in the reverse of
\* their order
SortByStartUnstable(units) ==
    Values(SortKeyed(Reverse([k \in 1..Len(units) |->
                                 [key |-> <<units[k].start>>, val |-> units[k]]])))

\* list.sort(key=lambda unit: unit.start): stable, in place
SortByStart(units) ==
    Values(SortKeyed([k \in 1..Len(units) |->
                         [key |-> <<units[k].start>>, val |-> units[k]]]))

\* A loop turn that stored the content line it built as the text of the cue
SubRip_unit_lines_writeback(i, subtitle_unit) ==
    [lines |-> <<IntStr(i), _construct_time_line(subtitle_unit),
                 _construct_content_line(subtitle_unit), << >> >>,
     unit |-> [subtitle_unit EXCEPT !.text = _construct_content_line(subtitle_unit)]]

\* One turn of the loop of SubRipExporter.to_string: the four lines of the
\* cue, and the cue as the turn leaves it (the loop assigns to no field)
SubRip_unit_lines(i, subtitle_unit) ==
    [lines |-> <<IntStr(i), _construct_time_line(subtitle_unit),
                 _construct_content_line(subtitle_unit), << >> >>,
     unit |-> subtitle_unit]

\* SubRipExporter.to_string: [ret, lines, subtitle, raised] - the returned
\* string, the local list lines, and the Subtitle as the call leaves it
SubRip_to_string(units) ==
    LET Out(turns, lines) ==
            [ret |-> Join(lines, <<"\n">>), lines |-> lines,
             subtitle |-> [k \in 1..Len(turns) |-> turns[k].unit], raised |-> FALSE]
        Emit(turns) == Out(turns, Concat([k \in 1..Len(turns) |-> turns[k].lines]))
        Loop(sorted) == Emit([i \in 1..Len(sorted) |-> SubRip_unit_lines(i, sorted[i])])
    IN  Loop(SortByStart(units))

(***************************************************************************)
(* subtitle/time.py: frame conversion.  A frame rate is held in            *)
(* thousandths of a frame per second (24.0 is 24000).  The code computes   *)
(* in binary floating point; the model computes the exact quotient, which  *)
(* is the same number for the frames, times and rates of this model (at    *)
(* 24.0 for every frame below 2000 and every time below 20 s; at 25.0 the  *)
(* two first part at frame 201 and at 1160 ms).                            *)
(***************************************************************************)

\* int(x) of a quotient: truncation toward zero
TruncDiv(a, b) ==
    LET Abs(n) == IF n < 0 THEN -n ELSE n
    IN  IF (a < 0) = (b < 0) THEN Abs(a) \div Abs(b) ELSE -(Abs(a) \div Abs(b))

\* A from_frame that counts the frames from 1
from_frame_one_based(frame, framerate) ==
    IF framerate = 0 THEN None ELSE Some(TruncDiv((frame - 1) * 1000000, framerate))

\* Time.from_frame; None stands for ZeroDivisionError
from_frame(frame, framerate) ==
    IF framerate = 0 THEN None ELSE Some(TruncDiv(frame * 1000000, framerate))

\* Time.to_frame
to_frame(milliseconds, framerate) == TruncDiv(milliseconds * framerate, 1000000)

\* Time.__sub__ with an int or a Time as other: the new Time
__sub__(self, other) ==
    LET max(x, y) == IF x > y THEN x ELSE y
    IN  max(0, self - other)

\* Time.__isub__: self after the call, which is also what it returns
__isub__(self, other) == self - other

\* Time.__rsub__: the new Time of other - self
__rsub__(self, other) == other - self

\* float(s) of a decimal literal with at most three fraction digits, in
\* thousandths; None stands for ValueError.  Exponents, inf and nan, which
\* float() also reads, are outside the inputs of this model.
ParseFloat(s) ==
    LET AllDigits(d) == \A k \in 1..Len(d) : IsDigit(d[k])
        Num(d) == IF d = << >> THEN 0 ELSE DigitsValue(d, 10)
        Thousandths(d) == Num(SubSeq(d \o <<"0", "0", "0">>, 1, 3))
        Parts(neg, p) ==
            IF Len(p) > 2 \/ (\E k \in 1..Len(p) : ~AllDigits(p[k]))
               \/ (\A k \in 1..Len(p) : p[k] = << >>)
               \/ (Len(p) = 2 /\ Len(p[2]) > 3)
            THEN None
            ELSE Some((IF neg THEN -1 ELSE 1)
                      * (Num(p[1]) * 1000 + (IF Len(p) = 2 THEN Thousandths(p[2]) ELSE 0)))
        Signed(t) ==
            IF t # << >> /\ t[1] \in {"+", "-"}
            THEN Parts(t[1] = "-", SplitOn(Tail(t), <<".">>, -1))
            ELSE Parts(FALSE, SplitOn(t, <<".">>, -1))
    IN  Signed(Strip(s))

\* str(fps) of a float held in thousandths: the shortest decimal, with at
\* least one fraction digit
FloatStr(x) ==
    LET Abs(n) == IF n < 0 THEN -n ELSE n
        Frac(d) == SubSeq(d, 1, Last({k \in 2..3 : d[k] # "0"}, 1))
    IN  (IF x < 0 THEN <<"-">> ELSE << >>) \o NatStr(Abs(x) \div 1000) \o <<".">>
        \o Frac(PadLeft(NatStr(Abs(x) % 1000), 3))

(***************************************************************************)
(* A dict of sets (collections.defaultdict(set)) is the sequence of its    *)
(* [key, vals] items in insertion order, vals the distinct values in the   *)
(* order they were added.  The order in which a set of str is iterated     *)
(* depends on the hash seed of the process and is fixed within a process.  *)
(* The model has two seeds: seed 0 iterates every set in insertion order,  *)
(* any other seed in the reverse order (a process may also iterate one set *)
(* in one order and another set in the other).                             *)
(***************************************************************************)

\* d[key].add(value)
DictAdd(d, key, value) ==
    LET At(k) ==
            IF k = 0 THEN Append(d, [key |-> key, vals |-> <<value>>])
            ELSE IF \E n \in 1..Len(d[k].vals) : d[k].vals[n] = value THEN d
            ELSE [d EXCEPT ![k].vals = Append(@, value)]
    IN  At(First({k \in 1..Len(d) : d[k].key = key}, 0))

\* list(values) of a set
list_of_set(vals, seed) == IF seed = 0 THEN vals ELSE Reverse(vals)

(***************************************************************************)
(* parsers/microdvd.py: MicroDVDParser                                     *)
(***************************************************************************)

\* re.match(SUB_REGEX, line): the groups start, end and content, or None
SUB_REGEX_match(line) ==
    LET Groups(i, j) ==
            IF j < 0 THEN None
            ELSE Some([start |-> Slice(line, 1, i), end |-> Slice(line, i + 2, j),
                       content |-> Slice(line, j + 1, Len(line))])
        Second(i) == IF i < 0 THEN None ELSE Groups(i, Find(line, <<"}">>, i + 2))
    IN  IF Len(line) > 0 /\ line[1] = "{" THEN Second(Find(line, <<"}", "{">>, 1)) ELSE None

\* CONTROL_CODE_REGEX.finditer(line): group 1 of every match, in order
RECURSIVE CONTROL_CODE_REGEX_finditer(_, _)
CONTROL_CODE_REGEX_finditer(line, from) ==
    LET Close(o, c) ==
            IF c < 0 THEN << >>
            ELSE <<Slice(line, o + 1, c)>> \o CONTROL_CODE_REGEX_finditer(line, c + 1)
        Open(o) == IF o < 0 THEN << >> ELSE Close(o, Find(line, <<"}">>, o + 1))
    IN  Open(Find(line, <<"{">>, from))

\* Color.from_bgr_hex; None stands for the exception int() raises
from_bgr_hex(start, end, color_string) ==
    LET Channels(cs) ==
            LET Build(rgb) ==
                    IF \E k \in 1..3 : rgb[k] = None THEN None
                    ELSE Some(Color(start, end, rgb[3][1], rgb[2][1], rgb[1][1]))
            IN  Build([k \in 1..3 |-> ParseInt(Slice(cs, 2 * k - 2, 2 * k), 16)])
    IN  Channels(ReplaceAll(color_string, <<"$">>, << >>))

\* formattings_from_control_codes: the list, or None when from_bgr_hex raises
formattings_from_control_codes(code, value, start, end) ==
    LET Y(v) ==
            (IF Contains(v, <<"i">>) THEN <<Italic(start, end)>> ELSE << >>)
            \o (IF Contains(v, <<"b">>) THEN <<Bold(start, end)>> ELSE << >>)
            \o (IF Contains(v, <<"u">>) THEN <<Underline(start, end)>> ELSE << >>)
        Size(n) == IF n = None THEN << >> ELSE <<TextSize(start, end, n[1])>>
        Col(c) == IF c = None THEN None ELSE Some(<<c[1]>>)
        Of(c) ==
            CASE c = <<"y">> -> Some(Y(Lower(value)))
              [] c = <<"c">> -> Col(from_bgr_hex(start, end, value))
              [] c = <<"f">> -> Some(<<FontFace(start, end, value)>>)
              [] c = <<"s">> -> Some(Size(ParseInt(value, 10)))
              [] c = <<"p">> ->
                    Some(IF value = <<"0">> THEN <<RelativePosition(8)>> ELSE << >>)
              [] OTHER -> Some(<< >>)
    IN  Of(Lower(code))

\* MicroDVDParser.__init__; previous_unit is the index of that cue in subtitle
MicroDVDParser(fps) ==
    [subtitle |-> << >>, fps |-> fps, _is_previous_end_empty |-> FALSE,
     default_control_codes |-> << >>, previous_unit |-> None]

\* An accumulate that leaves out the newline that joins the lines
RECURSIVE line_length_accumulate_no_newline(_, _)
line_length_accumulate_no_newline(clean_lines, k) ==
    IF k = 0 THEN 0
    ELSE line_length_accumulate_no_newline(clean_lines, k - 1) + Len(clean_lines[k])

\* _parse_content, line_length_accumulate[k - 1]: the sum of len(x) + 1 over
\* the first k clean lines
RECURSIVE line_length_accumulate(_, _)
line_length_accumulate(clean_lines, k) ==
    IF k = 0 THEN 0
    ELSE line_length_accumulate(clean_lines, k - 1) + Len(clean_lines[k]) + 1

\* MicroDVDParser._parse_content: [raw_text, formattings], or None when a
\* colour value raises.  The default codes are written in lower case and the
\* global codes of a cue are upper case, so no cue adds to a default set.
_parse_content(self, content, seed) ==
    LET isupper(s) ==
            /\ \E k \in 1..Len(s) : IsUpperChar(s[k])
            /\ \A k \in 1..Len(s) : ~IsLowerChar(s[k])
        Register(dicts, i, split) ==
            IF Len(split) <= 1 THEN dicts
            ELSE IF isupper(Strip(split[1]))
            THEN [dicts EXCEPT !.global = DictAdd(@, Strip(split[1]), Strip(split[2]))]
            ELSE [dicts EXCEPT !.per_line = DictAdd(@, <<i, Strip(split[1])>>, Strip(split[2]))]
        RECURSIVE Collect(_, _, _)
        Collect(dicts, i, codes) ==
            IF codes = << >> THEN dicts
            ELSE Collect(Register(dicts, i, SplitOn(Head(codes), <<":">>, -1)), i, Tail(codes))
        RECURSIVE Clean(_, _)
        Clean(line, codes) ==
            IF codes = << >> THEN line
            ELSE Clean(ReplaceAll(line, <<"{">> \o Head(codes) \o <<"}">>, << >>), Tail(codes))
        RECURSIVE Lines(_, _, _)
        Lines(acc, lines, i) ==
            LET Turn(codes) ==
                    Lines([dicts |-> Collect(acc.dicts, i, codes),
                           clean_lines |-> Append(acc.clean_lines, Clean(lines[i + 1], codes))],
                          lines, i + 1)
            IN  IF i >= Len(lines) THEN acc
                ELSE Turn(CONTROL_CODE_REGEX_finditer(lines[i + 1], 0))
        All(lists) ==
            IF \E k \in 1..Len(lists) : lists[k] = None THEN None
            ELSE Some(Concat([k \in 1..Len(lists) |-> lists[k][1]]))
        Of(code, val, start, end) ==
            IF code = <<"Y">>
            THEN All([n \in 1..Len(val) |->
                         formattings_from_control_codes(code, val[n], start, end)])
            ELSE formattings_from_control_codes(code, val[1], start, end)
        Global(d, raw_text) ==
            All([k \in 1..Len(d) |->
                    Of(d[k].key, list_of_set(d[k].vals, seed), 0, Len(raw_text))])
        PerLine(d, clean_lines) ==
            All([k \in 1..Len(d) |->
                    Of(d[k].key[2], list_of_set(d[k].vals, seed),
                       IF d[k].key[1] = 0 THEN 0
                       ELSE line_length_accumulate(clean_lines, d[k].key[1]),
                       line_length_accumulate(clean_lines, d[k].key[1] + 1) - 1)])
        Result(raw_text, formattings) ==
            IF formattings = None THEN None
            ELSE Some([raw_text |-> raw_text, formattings |-> formattings[1]])
        Build(acc) ==
            Result(Join(acc.clean_lines, <<"\n">>),
                   All(<<Global(acc.dicts.global, Join(acc.clean_lines, <<"\n">>)),
                         PerLine(acc.dicts.per_line, acc.clean_lines)>>))
    IN  Build(Lines([dicts |-> [global |-> self.default_control_codes, per_line |-> << >>],
                     clean_lines |-> << >>],
                    SplitOn(content, <<"|">>, -1), 0))

\* A _parse_unit that ends the previous cue at every start, whatever its end was
_parse_unit_ends_previous(self, unit_str, seed) ==
    LET isnumeric(s) == s # << >> /\ \A k \in 1..Len(s) : IsDigit(s[k])
        Raised(s1) == [self |-> s1, raised |-> TRUE]
        Store(s1, start, end, parsed) ==
            IF parsed = None THEN Raised(s1)
            ELSE [self |-> [s1 EXCEPT
                               !.subtitle = Append(@, SubtitleUnit(start, end, parsed[1].raw_text,
                                                                   parsed[1].formattings)),
                               !.previous_unit = Some(Len(s1.subtitle) + 1)],
                  raised |-> FALSE]
        WithEnd(s1, start, end, content) ==
            IF end = None THEN Raised(s1)
            ELSE Store(s1, start, end[1], _parse_content(s1, content, seed))
        \* end_frame is None for an empty end, else int(end_str), which can raise
        EndFrame(s1, start, m, end_frame) ==
            IF m.end # << >> /\ end_frame = None THEN Raised(s1)
            ELSE WithEnd([s1 EXCEPT !._is_previous_end_empty = (m.end = << >>)], start,
                         IF m.end = << >> THEN Some(start + 8000)
                         ELSE from_frame(end_frame[1], s1.fps),
                         m.content)
        Started(m, start) ==
            IF start = None THEN Raised(self)
            ELSE EndFrame(IF self.previous_unit # None
                          THEN [self EXCEPT !.subtitle[self.previous_unit[1]].end = start[1]]
                          ELSE self,
                          start[1], m, ParseInt(m.end, 10))
        Matched(matches) ==
            IF matches = None THEN [self |-> self, raised |-> FALSE]
            ELSE IF ~isnumeric(matches[1].start) THEN [self |-> self, raised |-> FALSE]
            ELSE Started(matches[1], from_frame(DigitsValue(matches[1].start, 10), self.fps))
    IN  Matched(SUB_REGEX_match(unit_str))
\* MicroDVDParser._parse_unit: [self, raised]
_parse_unit(self, unit_str, seed) ==
    LET isnumeric(s) == s # << >> /\ \A k \in 1..Len(s) : IsDigit(s[k])
        Raised(s1) == [self |-> s1, raised |-> TRUE]
        Store(s1, start, end, parsed) ==
            IF parsed = None THEN Raised(s1)
            ELSE [self |-> [s1 EXCEPT
                               !.subtitle = Append(@, SubtitleUnit(start, end, parsed[1].raw_text,
                                                                   parsed[1].formattings)),
                               !.previous_unit = Some(Len(s1.subtitle) + 1)],
                  raised |-> FALSE]
        WithEnd(s1, start, end, content) ==
            IF end = None THEN Raised(s1)
            ELSE Store(s1, start, end[1], _parse_content(s1, content, seed))
        \* end_frame is None for an empty end, else int(end_str), which can raise
        EndFrame(s1, start, m, end_frame) ==
            IF m.end # << >> /\ end_frame = None THEN Raised(s1)
            ELSE WithEnd([s1 EXCEPT !._is_previous_end_empty = (m.end = << >>)], start,
                         IF m.end = << >> THEN Some(start + 8000)
                         ELSE from_frame(end_frame[1], s1.fps),
                         m.content)
        Started(m, start) ==
            IF start = None THEN Raised(self)
            ELSE EndFrame(IF self._is_previous_end_empty /\ self.previous_unit # None
                          THEN [self EXCEPT !.subtitle[self.previous_unit[1]].end = start[1]]
                          ELSE self,
                          start[1], m, ParseInt(m.end, 10))
        Matched(matches) ==
            IF matches = None THEN [self |-> self, raised |-> FALSE]
            ELSE IF ~isnumeric(matches[1].start) THEN [self |-> self, raised |-> FALSE]
            ELSE Started(matches[1], from_frame(DigitsValue(matches[1].start, 10), self.fps))
    IN  Matched(SUB_REGEX_match(unit_str))

\* MicroDVDParser._parse_default: the parser after the call
_parse_default(self, sub_lines) ==
    LET IsDefault(m) == m # None /\ m[1].start = <<"D", "E", "F", "A", "U", "L", "T">>
        Known(identifier) == identifier \in {<<"c">>, <<"f">>, <<"s">>, <<"y">>, <<"p">>}
        Register(d, parts) ==
            IF Len(parts) <= 1 \/ ~Known(Lower(Strip(parts[1]))) THEN d
            ELSE DictAdd(d, Lower(Strip(parts[1])), Lower(Strip(parts[2])))
        RECURSIVE Collect(_, _)
        Collect(d, codes) ==
            IF codes = << >> THEN d
            ELSE Collect(Register(d, SplitOn(Head(codes), <<":">>, -1)), Tail(codes))
        Line(k) ==
            IF k = 0 THEN self
            ELSE [self EXCEPT !.default_control_codes =
                     Collect(@, CONTROL_CODE_REGEX_finditer(
                                    SUB_REGEX_match(sub_lines[k])[1].content, 0))]
    IN  Line(First({k \in 1..Len(sub_lines) :
                       /\ Contains(sub_lines[k], <<"{", "D", "E", "F", "A", "U", "L", "T", "}">>)
                       /\ IsDefault(SUB_REGEX_match(sub_lines[k]))}, 0))

\* MicroDVDParser.parse_text with fps_from_file left at True: [self, raised];
\* the return value is self.subtitle.  The inputs of this model hold no byte
\* order mark, so the replace of the first statement changes nothing.
MicroDVD_parse_text(self, sub_text, seed) ==
    LET RECURSIVE Units(_, _)
        Units(s1, sub_lines) ==
            LET Then(r) == IF r.raised THEN r ELSE Units(r.self, Tail(sub_lines))
            IN  IF sub_lines = << >> THEN [self |-> s1, raised |-> FALSE]
                ELSE Then(_parse_unit(s1, Head(sub_lines), seed))
        Rate(m) ==
            LET Fps(value) == IF value = None THEN self ELSE [self EXCEPT !.fps = value[1]]
            IN  IF m # None /\ m[1].start = m[1].end THEN Fps(ParseFloat(m[1].content))
                ELSE self
        Parse(sub_lines) ==
            IF sub_lines = << >> THEN [self |-> self, raised |-> TRUE]
            ELSE Units(_parse_default(Rate(SUB_REGEX_match(sub_lines[1])), sub_lines), sub_lines)
    IN  Parse(SplitLines(sub_text))

(***************************************************************************)
(* exporters/microdvd.py: MicroDVDExporter                                 *)
(***************************************************************************)

\* Color.to_bgr_hex
to_bgr_hex(f) == <<"$">> \o HexByte(f.b) \o HexByte(f.g) \o HexByte(f.r)

\* MicroDVDExporter.__init__
MicroDVDExporter(fps) == [fps |-> fps]

\* MicroDVDExporter.get_control_code over CONTROL_CODE_MAPS: [code, value] or None
get_control_code(formatting) ==
    LET Code(code, value) == Some([code |-> code, value |-> value])
    IN  CASE formatting.type = "Bold" -> Code(<<"y">>, <<"b">>)
          [] formatting.type = "Italic" -> Code(<<"y">>, <<"i">>)
          [] formatting.type = "Underline" -> Code(<<"y">>, <<"u">>)
          [] formatting.type = "Color" -> Code(<<"c">>, to_bgr_hex(formatting))
          [] formatting.type = "FontFace" -> Code(<<"f">>, formatting.face)
          [] formatting.type = "TextSize" -> Code(<<"s">>, IntStr(formatting.size))
          [] formatting.type = "RelativePosition" ->
                Code(<<"p">>, IF formatting.classifier = 8 THEN <<"0">> ELSE <<"1">>)
          [] OTHER -> None

\* A line count that starts at line 0 whatever the start of the span is
lines_of_formatting_from_zero(unit, formatting) ==
    [first |-> 0, last |-> CountChar(unit.text, "\n", formatting.start, formatting.end)]
\* SubtitleUnit.lines_of_formatting: the first and the last line index
lines_of_formatting(unit, formatting) ==
    LET Range(start_line) ==
            [first |-> start_line,
             last |-> start_line + CountChar(unit.text, "\n", formatting.start, formatting.end)]
    IN  Range(CountChar(unit.text, "\n", 0, formatting.start))

\* The body of the loop of MicroDVDExporter.to_string for a cue it does not
\* skip: the output line, or None when lines[line_index] raises IndexError
MicroDVD_unit_line(self, unit, seed) ==
    LET Control(dicts, formatting, control) ==
            LET PerLine(r) ==
                    LET RECURSIVE Each(_, _)
                        Each(d, line) ==
                            IF line > r.last THEN d
                            ELSE Each(DictAdd(d, <<control.code, line>>, control.value), line + 1)
                    IN  Each(dicts.per_line, r.first)
            IN  IF control.code # <<"p">>
                   /\ (formatting.start > 0 \/ formatting.end < Len(unit.text))
                THEN [dicts EXCEPT !.per_line = PerLine(lines_of_formatting(unit, formatting))]
                ELSE [dicts EXCEPT !.global = DictAdd(@, control.code, control.value)]
        RECURSIVE Register(_, _)
        Register(dicts, formattings) ==
            LET Turn(control) ==
                    Register(IF control = None THEN dicts
                             ELSE Control(dicts, Head(formattings), control[1]),
                             Tail(formattings))
            IN  IF formattings = << >> THEN dicts ELSE Turn(get_control_code(Head(formattings)))
        Sorted(values) ==
            Values(SortKeyed([n \in 1..Len(values) |-> [key |-> StrKey(values[n]), val |-> values[n]]]))
        Val(code, values) ==
            IF Lower(code) = <<"y">> THEN Join(Sorted(values), <<",">>)
            ELSE list_of_set(values, seed)[1]
        Prefix(lines, line_index, code) ==
            IF line_index >= Len(lines) THEN None
            ELSE Some([lines EXCEPT ![line_index + 1] = <<"{">> \o code \o <<"}">> \o @])
        RECURSIVE Global(_, _)
        Global(lines, d) ==
            IF lines = None \/ d = << >> THEN lines
            ELSE Global(Prefix(lines[1], 0,
                               Upper(Head(d).key) \o <<":">> \o Val(Head(d).key, Head(d).vals)),
                        Tail(d))
        RECURSIVE PerLines(_, _)
        PerLines(lines, d) ==
            IF lines = None \/ d = << >> THEN lines
            ELSE PerLines(Prefix(lines[1], Head(d).key[2],
                                 Lower(Head(d).key[1]) \o <<":">>
                                     \o Val(Head(d).key[1], Head(d).vals)),
                          Tail(d))
        Line(lines) ==
            IF lines = None THEN None
            ELSE Some(<<"{">> \o IntStr(to_frame(unit.start, self.fps)) \o <<"}", "{">>
                      \o IntStr(to_frame(unit.end, self.fps)) \o <<"}">>
                      \o Join(lines[1], <<"|">>))
        Apply(dicts) ==
            Line(PerLines(Global(Some(SplitLines(unit.text)), dicts.global), dicts.per_line))
    IN  Apply(Register([global |-> << >>, per_line |-> << >>], unit.formattings))

\* MicroDVDExporter.to_string: [ret, lines, subtitle, raised] - the returned
\* string, the local list units, the Subtitle as the call leaves it, and
\* whether the call ended in an exception
MicroDVD_to_string(self, cues, seed) ==
    LET Out(sorted, units) ==
            [ret |-> Join(units, <<"\n">>), lines |-> units, subtitle |-> sorted, raised |-> FALSE]
        RECURSIVE Loop(_, _, _)
        Loop(sorted, units, k) ==
            LET Then(line) ==
                    IF line = None
                    THEN [ret |-> << >>, lines |-> units, subtitle |-> sorted, raised |-> TRUE]
                    ELSE Loop(sorted, Append(units, line[1]), k + 1)
            IN  IF k > Len(sorted) THEN Out(sorted, units)
                ELSE IF Len(sorted[k].text) = 0 \/ sorted[k].start = sorted[k].end
                THEN Loop(sorted, units, k + 1)
                ELSE Then(MicroDVD_unit_line(self, sorted[k], seed))
    IN  Loop(SortByStart(cues), <<<<"{", "1", "}", "{", "1", "}">> \o FloatStr(self.fps)>>, 1)


(***************************************************************************)
(* exporters/html_injection.py: HTMLInjector                               *)
(***************************************************************************)

\* The rule table of the SubRip exporter: FORMATTING_HTML_TAGS in the order of
\* FORMATTING_PRIORITIES; a rule is an HTMLRule with the class it is filed under
SubRipRules ==
    LET font == <<"f", "o", "n", "t">>
    IN
    << [cls |-> "TextSize", tag |-> font, attribute |-> Some(<<"s", "i", "z", "e">>)],
       [cls |-> "FontFace", tag |-> font, attribute |-> Some(<<"f", "a", "c", "e">>)],
       [cls |-> "Color", tag |-> font, attribute |-> Some(<<"c", "o", "l", "o", "r">>)],
       [cls |-> "Bold", tag |-> <<"b">>, attribute |-> None],
       [cls |-> "Italic", tag |-> <<"i">>, attribute |-> None],
       [cls |-> "Underline", tag |-> <<"u">>, attribute |-> None],
       [cls |-> "Strikethrough", tag |-> <<"s">>, attribute |-> None] >>

\* HTMLInjector.__init__; ordering maps each tag to the index of the last rule
\* that names it, its keys in the order of their first rule
HTMLInjector(rules) ==
    LET Put(d, k, i) ==
            IF k = 0 THEN Append(d, [key |-> rules[i].tag, val |-> i - 1])
            ELSE [d EXCEPT ![k].val = i - 1]
        RECURSIVE Ordering(_)
        Ordering(i) ==
            IF i = 0 THEN << >>
            ELSE LET Next1(d) == Put(d, First({k \in 1..Len(d) : d[k].key = rules[i].tag}, 0), i)
                 IN  Next1(Ordering(i - 1))
    IN  [rules |-> rules, marks |-> << >>, ordering |-> Ordering(Len(rules))]

\* HTMLInjector._get_formatting_value
_get_formatting_value(formatting) ==
    CASE formatting.type = "Color" -> Some(to_hex(formatting))
      [] formatting.type = "FontFace" -> Some(formatting.face)
      [] formatting.type = "TextSize" -> Some(IntStr(formatting.size))
      [] OTHER -> None

\* HTMLInjector._formatting_to_mark: the injector after the call
_formatting_to_mark(self, formatting) ==
    LET Value(v) == IF v = None THEN <<"N", "o", "n", "e">> ELSE v[1]
        Attribute(rule) ==
            IF rule.attribute = None THEN << >>
            ELSE rule.attribute[1] \o <<"=", "\"">> \o Value(_get_formatting_value(formatting))
                     \o <<"\"">>
        Mark(k) ==
            IF k = 0 THEN self
            ELSE [self EXCEPT !.marks =
                     DictAdd(@, <<formatting.start, formatting.end, self.rules[k].tag>>,
                             Attribute(self.rules[k]))]
    IN  Mark(First({k \in 1..Len(self.rules) : self.rules[k].cls = formatting.type}, 0))

\* A clear that leaves the marks in the registry
clear_keeps_marks(self) == self
\* HTMLInjector.clear
clear(self) == [self EXCEPT !.marks = << >>]

\* HTMLInjector.add_formattings
RECURSIVE add_formattings(_, _)
add_formattings(self, formattings) ==
    IF formattings = << >> THEN self
    ELSE add_formattings(_formatting_to_mark(self, Head(formattings)), Tail(formattings))

\* A loop that splices the tags in from the first to the last
SpliceForward(text, tags) ==
    LET RECURSIVE Go(_, _)
        Go(t, k) ==
            IF k > Len(tags) THEN t
            ELSE Go(Slice(t, 0, tags[k].index) \o tags[k].tag_string
                        \o Slice(t, tags[k].index, Len(t)), k + 1)
    IN  Go(text, 1)

\* A loop that writes each tag over the character at its index
SpliceOver(text, tags) ==
    LET RECURSIVE Go(_, _)
        Go(t, k) ==
            IF k = 0 THEN t
            ELSE Go(Slice(t, 0, tags[k].index) \o tags[k].tag_string
                        \o Slice(t, tags[k].index + 1, Len(t)), k - 1)
    IN  Go(text, Len(tags))
\* HTMLInjector.inject, the loop over reversed(tags)
Splice(text, tags) ==
    LET RECURSIVE Go(_, _)
        Go(t, k) ==
            IF k = 0 THEN t
            ELSE Go(Slice(t, 0, tags[k].index) \o tags[k].tag_string
                        \o Slice(t, tags[k].index, Len(t)), k - 1)
    IN  Go(text, Len(tags))

\* HTMLInjector.inject
inject(self, text) ==
    LET get(tag) ==
            LET At(k) == IF k = 0 THEN 0 ELSE self.ordering[k].val
            IN  At(First({k \in 1..Len(self.ordering) : self.ordering[k].key = tag}, 0))
        Sorted(attributes) ==
            Values(SortKeyed([n \in 1..Len(attributes) |->
                                [key |-> StrKey(attributes[n]), val |-> attributes[n]]]))
        StartTag(tag, attributes_string) ==
            <<"<">> \o tag \o (IF attributes_string # << >> THEN <<" ">> \o attributes_string
                               ELSE << >>) \o <<">">>
        Tags(mark, attributes, start_index) ==
            << [key |-> <<mark[1], start_index>>,
                val |-> [index |-> mark[1],
                         tag_string |-> StartTag(mark[3], Join(Sorted(attributes), <<" ">>))]],
               [key |-> <<mark[2], Len(self.ordering) - start_index>>,
                val |-> [index |-> mark[2],
                         tag_string |-> <<"<", "/">> \o mark[3] \o <<">">>]] >>
    IN  Splice(text,
               Values(SortKeyed(Concat([k \in 1..Len(self.marks) |->
                   Tags(self.marks[k].key, self.marks[k].vals, get(self.marks[k].key[3]))]))))

(***************************************************************************)
(* The tag parser driven by tag events (the calls the tokenizer makes)     *)
(***************************************************************************)

MaxEvents == 4

T_b == <<"b">>
T_x == <<"x">>
T_y == <<"y">>
T_font == <<"f", "o", "n", "t">>
S_bold == <<"b", "o", "l", "d">>

\* <b>, <font size="12">, the unrecognized <x> and <y k="v">
StartEvents ==
    { [kind |-> "start", tag |-> T_b, attrs |-> << >>],
      [kind |-> "start", tag |-> T_font,
       attrs |-> <<Attr(<<"s", "i", "z", "e">>, Some(<<"1", "2">>))>>],
      [kind |-> "start", tag |-> T_x, attrs |-> << >>],
      [kind |-> "start", tag |-> T_y, attrs |-> <<Attr(<<"k">>, Some(<<"v">>))>>] }
EndEvents == { [kind |-> "end", tag |-> t] : t \in {T_b, T_font, T_x} }
DataEvents == { [kind |-> "data", data |-> S_bold] }

\* the variables of the other specifications, at rest
TagIdle == UNCHANGED <<parser, nlines, accepted, input, subtitle, outputs, emitted, hashseed,
                        injector, times>>

TagInit ==
    /\ pc = "events"
    /\ tag_parser = NewTagParser
    /\ events = << >>
    /\ parser = << >> /\ nlines = 0 /\ accepted = << >>
    /\ input = << >> /\ subtitle = << >> /\ outputs = << >> /\ emitted = << >>
    /\ hashseed = 0
    /\ injector = << >> /\ times = << >>

StartTag ==
    /\ pc = "events" /\ Len(events) < MaxEvents
    /\ \E ev \in StartEvents :
          /\ tag_parser' = handle_starttag(tag_parser, ev.tag, ev.attrs)
          /\ events' = Append(events, ev)
    /\ UNCHANGED pc /\ TagIdle

EndTag ==
    /\ pc = "events" /\ Len(events) < MaxEvents
    /\ \E ev \in EndEvents :
          /\ tag_parser' = handle_endtag(tag_parser, ev.tag)
          /\ events' = Append(events, ev)
    /\ UNCHANGED pc /\ TagIdle

Data ==
    /\ pc = "events" /\ Len(events) < MaxEvents
    /\ \E ev \in DataEvents :
          /\ tag_parser' = handle_data(tag_parser, ev.data)
          /\ events' = Append(events, ev)
    /\ UNCHANGED pc /\ TagIdle

Close ==
    /\ pc = "events"
    /\ tag_parser' = HTMLTagParser_close(tag_parser)
    /\ pc' = "closed"
    /\ UNCHANGED events /\ TagIdle

TagNext == StartTag \/ EndTag \/ Data \/ Close

SpecTag == TagInit /\ [][TagNext]_vars

\* C1: after close, every emitted span satisfies 0 <= start <= end <= len(text),
\* whatever start-tag, end-tag and text events came before.
SpansWithinText ==
    pc = "closed" =>
        \A i \in 1..Len(tag_parser.formattings) :
            LET f == tag_parser.formattings[i]
            IN  0 <= f.start /\ f.start <= f.end /\ f.end <= Len(tag_parser.text)

\* C1's case: close put an unrecognized opening tag back in front of a span (the
\* span was shifted past the last text offset) after an unmatched end tag was
\* spliced into the text.
SpansWithinTextWitness ==
    /\ pc = "closed"
    /\ \E i \in 1..Len(tag_parser.spans) : tag_parser.spans[i].end = None
    /\ \E i \in 1..Len(events) :
          events[i].kind = "end" /\ \A j \in 1..(i - 1) : events[j].kind # "start"
    /\ \E i \in 1..Len(tag_parser.formattings) :
          /\ tag_parser.formattings[i].start > 0
          /\ tag_parser.formattings[i].end > tag_parser.position

\* the events of the markup <b>bold</x>
BoldThenStrayEnd ==
    << [kind |-> "start", tag |-> T_b, attrs |-> << >>],
       [kind |-> "data", data |-> S_bold],
       [kind |-> "end", tag |-> T_x] >>

S_bold_x == <<"b", "o", "l", "d", "<", "/", "x", ">">>

\* C2 as stated: <b>bold</x> yields the text bold</x> and one Bold span (0, 4).
StrayEndBoldEndsAtFour ==
    (pc = "closed" /\ events = BoldThenStrayEnd) =>
        /\ tag_parser.text = S_bold_x
        /\ tag_parser.formattings = <<Bold(0, 4)>>

\* C2 amended: <b>bold</x> yields the text bold</x> and one Bold span (0, 8):
\* the b frame is still open at close and ends at the current offset, which
\* lies after the spliced </x>.
StrayEndBoldEndsAtEight ==
    (pc = "closed" /\ events = BoldThenStrayEnd) =>
        /\ tag_parser.text = S_bold_x
        /\ tag_parser.formattings = <<Bold(0, 8)>>

StrayEndWitness == pc = "closed" /\ events = BoldThenStrayEnd

\* C24: an end tag with an open frame of its name takes the topmost such frame
\* off the stack and collects it with end = the current offset; the frames
\* below and above it stay on the stack in their order, and the offset and the
\* text are as they were.
EndTagClosesTopmost ==
    [][(/\ Len(events') = Len(events) + 1
        /\ events'[Len(events')].kind = "end"
        /\ \E i \in 1..Len(tag_parser.stack) :
              tag_parser.stack[i].tag = events'[Len(events')].tag)
          => \E i \in 1..Len(tag_parser.stack) :
                /\ tag_parser.stack[i].tag = events'[Len(events')].tag
                /\ \A j \in (i + 1)..Len(tag_parser.stack) :
                      tag_parser.stack[j].tag # events'[Len(events')].tag
                /\ tag_parser'.stack = [j \in 1..(Len(tag_parser.stack) - 1) |->
                                           tag_parser.stack[IF j < i THEN j ELSE j + 1]]
                /\ tag_parser'.spans
                       = Append(tag_parser.spans,
                                TagSpan(tag_parser.stack[i].tag, tag_parser.stack[i].attributes,
                                        tag_parser.stack[i].start, Some(tag_parser.position)))
                /\ tag_parser'.position = tag_parser.position
                /\ tag_parser'.text_parts = tag_parser.text_parts]_vars

\* C24's case: </b> closed the b frame at offset 4 while the x frame opened
\* after it stays open
EndTagClosesTopmostWitness ==
    /\ pc = "events"
    /\ events = << [kind |-> "start", tag |-> T_b, attrs |-> << >>],
                   [kind |-> "data", data |-> S_bold],
                   [kind |-> "start", tag |-> T_x, attrs |-> << >>],
                   [kind |-> "end", tag |-> T_b] >>
    /\ tag_parser.stack = <<TagSpan(T_x, << >>, 4, None)>>
    /\ tag_parser.spans = <<TagSpan(T_b, << >>, 0, Some(4))>>

\* the summed length of the tags put back at or before an offset
RECURSIVE TagLengthUpTo(_, _)
TagLengthUpTo(tags, offset) ==
    IF tags = << >> THEN 0
    ELSE (IF Head(tags).position <= offset THEN Len(Head(tags).tag) ELSE 0)
         + TagLengthUpTo(Tail(tags), offset)

\* a text without the tags put back into it; tags is in ascending order
RECURSIVE WithoutTags(_, _)
WithoutTags(text, tags) ==
    IF tags = << >> THEN text
    ELSE LET Cut(at, tag) ==
                 IF Slice(text, at, at + Len(tag)) = tag
                 THEN WithoutTags(Slice(text, 0, at) \o Slice(text, at + Len(tag), Len(text)),
                                  SubSeq(tags, 1, Len(tags) - 1))
                 ELSE text
         IN  Cut(tags[Len(tags)].position
                     + TagLengthUpTo(SubSeq(tags, 1, Len(tags) - 1), Len(text)),
                 tags[Len(tags)].tag)

\* C25: after close the text is the joined text parts with the opening tag of
\* each frame left open and unrecognized inserted at its start offset; each
\* span has its start moved by the tags inserted at or before its start and its
\* end by the tags inserted at or before its end; and a span with no tag
\* inserted after its start and at or before its end covers the characters it
\* covered in the joined text parts.
PutBackShiftsSpans ==
    pc = "closed" =>
        LET Check(text, base, tags) ==
                /\ WithoutTags(tag_parser.text, tags) = text
                /\ Len(tag_parser.text) = Len(text) + TagLengthUpTo(tags, Len(text))
                /\ Len(tag_parser.formattings) = Len(base)
                /\ \A i \in 1..Len(base) :
                      /\ tag_parser.formattings[i]
                             = [base[i] EXCEPT
                                   !.start = @ + TagLengthUpTo(tags, base[i].start),
                                   !.end = @ + TagLengthUpTo(tags, base[i].end)]
                      /\ (\A k \in 1..Len(tags) :
                              tags[k].position <= base[i].start
                              \/ tags[k].position > base[i].end)
                            => Slice(tag_parser.text, tag_parser.formattings[i].start,
                                     tag_parser.formattings[i].end)
                                   = Slice(text, base[i].start, base[i].end)
        IN  Check(Concat(tag_parser.text_parts), SpanFormattings(tag_parser.spans),
                  Values(SortKeyed(InvalidTags(tag_parser.spans))))

\* C25's case: <x> was put back at offset 4 of bold; the span closed at 4 had
\* its end moved and the span opened at 4 was moved whole
PutBackShiftsSpansWitness ==
    /\ pc = "closed"
    /\ tag_parser.text = <<"b", "o", "l", "d", "<", "x", ">">>
    /\ tag_parser.formattings = <<Bold(0, 7), Bold(7, 7)>>

\* C34: the unrecognized start tags still open at close are put back at their
\* offsets in the order they were opened: the text is the joined text parts with
\* the open tags inserted from the last opened to the first, so that of two tags
\* opened at one offset the one opened first comes first.
OpenTagsKeepInputOrder ==
    pc = "closed" =>
        LET InOrder(open) ==
                tag_parser.text
                    = PutBack([text |-> Concat(tag_parser.text_parts), formattings |-> << >>],
                              Reverse([i \in 1..Len(open) |->
                                          [position |-> open[i].start,
                                           tag |-> _build_start_tag(open[i].tag,
                                                                    open[i].attributes)]])).text
        IN  InOrder(SelectSeq(tag_parser.spans, LAMBDA span : span.end = None))

\* C35: a start tag outside b, i, u, s and font stays in the text as often as it
\* was opened, with or without an end tag after it, and the spans are at most
\* as many as the supported start tags.
UnsupportedTagsStayInText ==
    pc = "closed" =>
        /\ \A ev \in {events[i] : i \in {j \in 1..Len(events) :
                                            /\ events[j].kind = "start"
                                            /\ events[j].tag \notin VALID_HTML_TAGS}} :
              Cardinality({o \in 0..Len(tag_parser.text) :
                              MatchAt(tag_parser.text, o, _build_start_tag(ev.tag, ev.attrs))})
                  >= Cardinality({j \in 1..Len(events) : events[j] = ev})
        /\ Len(tag_parser.formattings)
               <= Cardinality({j \in 1..Len(events) :
                                  /\ events[j].kind = "start"
                                  /\ events[j].tag \in VALID_HTML_TAGS})


(***************************************************************************)
(* SubRipParser.parse_text, one line of input at a time                    *)
(***************************************************************************)

MaxLines == 5

\* The lines handed to the loop
SrtLines ==
    {
      \* an index line: 1
      <<"1">>,
      \* a time line whose start is zero: 00:00:00,000 --> 00:00:01,000
      <<"0", "0", ":", "0", "0", ":", "0", "0", ",", "0", "0", "0", " ", "-", "-", ">", " ",
        "0", "0", ":", "0", "0", ":", "0", "1", ",", "0", "0", "0">>,
      \* a time line with the four coordinates: 00:00:03,000 --> 00:00:04,000  X1:001 X2:002 Y1:003 Y2:004
      <<"0", "0", ":", "0", "0", ":", "0", "3", ",", "0", "0", "0", " ", "-", "-", ">", " ",
        "0", "0", ":", "0", "0", ":", "0", "4", ",", "0", "0", "0", " ", " ", "X", "1", ":",
        "0", "0", "1", " ", "X", "2", ":", "0", "0", "2", " ", "Y", "1", ":", "0", "0", "3",
        " ", "Y", "2", ":", "0", "0", "4">>,
      \* a line with --> whose timestamps have no colons: a --> b
      <<"a", " ", "-", "-", ">", " ", "b">>,
      \* a time line with a coordinate that is no integer: 00:00:01,000 --> 00:00:02,000 X1:a
      <<"0", "0", ":", "0", "0", ":", "0", "1", ",", "0", "0", "0", " ", "-", "-", ">", " ",
        "0", "0", ":", "0", "0", ":", "0", "2", ",", "0", "0", "0", " ", "X", "1", ":", "a">>,
      \* content with an SSA position tag, a b element and a space the loop strips
      <<"{", "\\", "a", "n", "8", "}", "<", "b", ">", "x", "<", "/", "b", ">", " ">>,
      \* a blank line
      << >> }

SrtIdle == UNCHANGED <<tag_parser, events, input, subtitle, outputs, emitted, hashseed,
                        injector, times>>

SrtInit ==
    /\ pc = "parsing"
    /\ parser = NewSubRipParser
    /\ nlines = 0
    /\ accepted = << >>
    /\ tag_parser = NewTagParser /\ events = << >>
    /\ input = << >> /\ subtitle = << >> /\ outputs = << >> /\ emitted = << >>
    /\ hashseed = 0
    /\ injector = << >> /\ times = << >>

\* the loop of parse_text takes a line in INDEX state
OnIndexLine ==
    /\ pc = "parsing" /\ nlines < MaxLines /\ parser.state = "INDEX"
    /\ \E line \in SrtLines : parser' = _on_index_state(parser, Strip(line))
    /\ nlines' = nlines + 1
    /\ UNCHANGED <<pc, accepted>> /\ SrtIdle

\* the loop takes a line in TIME state; accepted records the times of each line
\* that _on_time_state took as a time line
OnTimeLine ==
    /\ pc = "parsing" /\ nlines < MaxLines /\ parser.state = "TIME"
    /\ \E line \in SrtLines :
          LET Turn(r) ==
                  /\ parser' = r.self
                  /\ pc' = IF r.raised THEN "raised" ELSE pc
                  /\ accepted' = IF ~r.raised /\ r.self.state = "CONTENT"
                                 THEN Append(accepted,
                                             <<r.self.start_time[1], r.self.end_time[1]>>)
                                 ELSE accepted
          IN  Turn(_on_time_state(parser, Strip(line)))
    /\ nlines' = nlines + 1
    /\ SrtIdle

\* the loop takes a line in CONTENT state
OnContentLine ==
    /\ pc = "parsing" /\ nlines < MaxLines /\ parser.state = "CONTENT"
    /\ \E line \in SrtLines : parser' = _on_content_state(parser, Strip(line))
    /\ nlines' = nlines + 1
    /\ UNCHANGED <<pc, accepted>> /\ SrtIdle

\* the lines are used up: the final flush, and parse_text returns
EndOfInput ==
    /\ pc = "parsing"
    /\ parser' = ParseEnd(parser)
    /\ pc' = "parsed"
    /\ UNCHANGED <<nlines, accepted>> /\ SrtIdle

SrtNext == OnIndexLine \/ OnTimeLine \/ OnContentLine \/ EndOfInput

SpecSrt == SrtInit /\ [][SrtNext]_vars

\* C3 as stated: parse_text raises for no sequence of lines.
ParseNeverRaises == pc # "raised"

\* the times of the cues of a Subtitle, in order
CueTimes(units) == [k \in 1..Len(units) |-> <<units[k].start, units[k].end>>]

\* C4: a block without a time line (an index line, then only lines without -->,
\* then the end of input) adds no cue and leaves the cues stored before it as
\* they were; and every cue in the Subtitle has the start and the end of a time
\* line that was accepted.
NoCueWithoutTimeLine ==
    /\ [](/\ Len(parser.subtitle) <= Len(accepted)
          /\ CueTimes(parser.subtitle) = SubSeq(accepted, 1, Len(parser.subtitle)))
    /\ [][(parser.state = "TIME" /\ (parser'.state = "TIME" \/ pc' = "parsed"))
             => parser'.subtitle = parser.subtitle]_vars

\* C4's case: one cue was stored, then an index line opened a block in which no
\* time line came before the end of input.
NoCueWithoutTimeLineWitness ==
    /\ pc = "parsed" /\ parser.state = "TIME"
    /\ nlines = MaxLines
    /\ Len(parser.subtitle) = 1 /\ Len(accepted) = 1

\* C5: when parse_text returns, the cues are exactly the accepted time lines,
\* one cue each, in their order; the last one is stored by the final flush.
OneCuePerTimeLine == pc = "parsed" => CueTimes(parser.subtitle) = accepted

\* C5's case: two time lines were accepted, the second cue still pending in
\* CONTENT state when the input ended.
OneCuePerTimeLineWitness ==
    /\ pc = "parsed" /\ parser.state = "CONTENT"
    /\ Len(accepted) = 2 /\ accepted[1] # accepted[2]
    /\ Len(parser.subtitle) = 2

(***************************************************************************)
(* Parse a document, then export the Subtitle: parse_text of either parser *)
(* followed by to_string calls of an exporter on the returned Subtitle     *)
(***************************************************************************)

MaxCues == 2
MaxExports == 2

\* The blocks of a SubRip document: a time line (starting at 0.5 s or at 1 s)
\* and a content: plain text, a b element, or two lines with an i element on
\* the first and an SSA position tag and a font element on the second.
SrtBlocks ==
    { [time |-> t, content |-> c] :
        t \in {
            \* 00:00:00,500 --> 00:00:01,000
            <<"0", "0", ":", "0", "0", ":", "0", "0", ",", "5", "0", "0", " ", "-",
              "-", ">", " ", "0", "0", ":", "0", "0", ":", "0", "1", ",", "0", "0",
              "0">>,
            \* 00:00:01,000 --> 00:00:02,000
            <<"0", "0", ":", "0", "0", ":", "0", "1", ",", "0", "0", "0", " ", "-",
              "-", ">", " ", "0", "0", ":", "0", "0", ":", "0", "2", ",", "0", "0",
              "0">> },
        c \in {
            \* x
            <<"x">>,
            \* <b>x</b>
            <<"<", "b", ">", "x", "<", "/", "b", ">">>,
            \* <i>a</i>\n{\an8}<font color="#ff0000">y</font>
            <<"<", "i", ">", "a", "<", "/", "i", ">", "\n", "{", "\\", "a", "n", "8",
              "}", "<", "f", "o", "n", "t", " ", "c", "o", "l", "o", "r", "=", "\"",
              "#", "f", "f", "0", "0", "0", "0", "\"", ">", "y", "<", "/", "f", "o",
              "n", "t", ">">> } }

\* The lines of a MicroDVD document: a frame rate line, a cue with a position
\* code on each of its two lines, a cue with two y codes on its first line and
\* a colour on its second, a cue with no end frame, a DEFAULT line, and a cue
\* whose last line holds nothing but a code.  A line is a block with no time
\* line.
MdvdLines ==
    { [time |-> << >>, content |-> c] :
        c \in {
            \* {1}{1}25
            <<"{", "1", "}", "{", "1", "}", "2", "5">>,
            \* {1}{2}{p:0}a|{p:0}b
            <<"{", "1", "}", "{", "2", "}", "{", "p", ":", "0", "}", "a", "|", "{",
              "p", ":", "0", "}", "b">>,
            \* {25}{50}{y:i}{y:b}x|{c:$0000ff}y
            <<"{", "2", "5", "}", "{", "5", "0", "}", "{", "y", ":", "i", "}", "{",
              "y", ":", "b", "}", "x", "|", "{", "c", ":", "$", "0", "0", "0", "0",
              "f", "f", "}", "y">>,
            \* {10}{}{Y:b}{C:$000001}hello
            <<"{", "1", "0", "}", "{", "}", "{", "Y", ":", "b", "}", "{", "C", ":",
              "$", "0", "0", "0", "0", "0", "1", "}", "h", "e", "l", "l", "o">>,
            \* {DEFAULT}{}{C:$ff0000}
            <<"{", "D", "E", "F", "A", "U", "L", "T", "}", "{", "}", "{", "C", ":",
              "$", "f", "f", "0", "0", "0", "0", "}">>,
            \* {30}{31}ab|{y:i}
            <<"{", "3", "0", "}", "{", "3", "1", "}", "a", "b", "|", "{", "y", ":",
              "i", "}">> } }

\* The text of the SubRip document of the blocks: index line k, time line,
\* content and a blank line for block k
SrtDocument(blocks) ==
    Join(Concat([k \in 1..Len(blocks) |->
                    <<NatStr(k), blocks[k].time, blocks[k].content, << >> >>]), <<"\n">>)

Documents ==
    LET Seqs(S) == UNION {[1..n -> S] : n \in 0..MaxCues}
    IN  {[format |-> "srt", blocks |-> b, text |-> SrtDocument(b)] : b \in Seqs(SrtBlocks)}
        \cup {[format |-> "sub", blocks |-> b,
               text |-> Join([k \in 1..Len(b) |-> b[k].content], <<"\n">>)] : b \in Seqs(MdvdLines)}

ExportIdle == UNCHANGED <<tag_parser, events, parser, nlines, accepted, input, hashseed,
                           injector, times>>

ExportInit ==
    /\ pc = "start"
    /\ input \in Documents
    /\ hashseed \in 0..1
    /\ subtitle = << >> /\ outputs = << >>
    /\ emitted = [exporter |-> "none", lines |-> << >>]
    /\ tag_parser = NewTagParser /\ events = << >>
    /\ parser = << >> /\ nlines = 0 /\ accepted = << >>
    /\ injector = << >> /\ times = << >>

\* SubRipParser().parse_text(input)
ParseSubRip ==
    /\ pc = "start" /\ input.format = "srt"
    /\ LET Done(r) ==
               /\ pc' = IF r.raised THEN "raised" ELSE "parsed"
               /\ subtitle' = IF r.raised THEN subtitle ELSE r.self.subtitle
       IN  Done(SubRip_parse_text(NewSubRipParser, input.text))
    /\ UNCHANGED <<outputs, emitted>>
    /\ ExportIdle

\* MicroDVDParser().parse_text(input)
ParseMicroDVD ==
    /\ pc = "start" /\ input.format = "sub"
    /\ LET Done(r) ==
               /\ pc' = IF r.raised THEN "raised" ELSE "parsed"
               /\ subtitle' = IF r.raised THEN subtitle ELSE r.self.subtitle
       IN  Done(MicroDVD_parse_text(MicroDVDParser(24000), input.text, hashseed))
    /\ UNCHANGED <<outputs, emitted>>
    /\ ExportIdle

\* exporter.to_string(subtitle) of a SubRipExporter(); the calls after the
\* first are calls of the same exporter
ExportSubRip ==
    /\ pc \in {"parsed", "exported"} /\ Len(outputs) < MaxExports
    /\ emitted.exporter \in {"none", "SubRip"}
    /\ LET Done(r) ==
               /\ pc' = "exported"
               /\ subtitle' = r.subtitle
               /\ emitted' = [exporter |-> "SubRip", lines |-> r.lines]
               /\ outputs' = Append(outputs, [exporter |-> "SubRip", ret |-> r.ret])
       IN  Done(SubRip_to_string(subtitle))
    /\ ExportIdle

\* exporter.to_string(subtitle) of a MicroDVDExporter()
ExportMicroDVD ==
    /\ pc \in {"parsed", "exported"} /\ Len(outputs) < MaxExports
    /\ emitted.exporter \in {"none", "MicroDVD"}
    /\ LET Done(r) ==
               /\ pc' = IF r.raised THEN "raised" ELSE "exported"
               /\ subtitle' = r.subtitle
               /\ emitted' = [exporter |-> "MicroDVD", lines |-> r.lines]
               /\ outputs' = IF r.raised THEN outputs
                             ELSE Append(outputs, [exporter |-> "MicroDVD", ret |-> r.ret])
       IN  Done(MicroDVD_to_string(MicroDVDExporter(24000), subtitle, hashseed))
    /\ ExportIdle

ExportNext == ParseSubRip \/ ParseMicroDVD \/ ExportSubRip \/ ExportMicroDVD

SpecExport == ExportInit /\ [][ExportNext]_vars

\* C6 as stated: after a parse by either parser, every cue holds at most one
\* RelativePosition and at most one AbsolutePosition.  The SubRip parser keeps
\* to it; the MicroDVD parser adds one RelativePosition for every p code with
\* value 0, on whichever line.
AtMostOnePositionOfEachKind ==
    \A k \in 1..Len(subtitle) :
        \A type \in {"RelativePosition", "AbsolutePosition"} :
            Cardinality({n \in 1..Len(subtitle[k].formattings) :
                            subtitle[k].formattings[n].type = type}) <= 1

\* C7: each to_string call emits the cues in non-decreasing start order, read
\* off the list the call built: the SubRip exporter emits four lines per cue,
\* the first of them the index lines 1, 2, ..., n and the second the time
\* lines with non-decreasing starts; the MicroDVD exporter emits, after its
\* header line, lines with non-decreasing start frames.
EmittedInStartOrder ==
    LET SrtStart(k) ==
            _parse_timestamp(Strip(SplitOn(emitted.lines[4 * k - 2], <<"-", "-", ">">>, -1)[1]))[1]
        SubStart(k) == ParseInt(SUB_REGEX_match(emitted.lines[k])[1].start, 10)[1]
    IN  /\ emitted.exporter = "SubRip" =>
              /\ Len(emitted.lines) = 4 * Len(subtitle)
              /\ \A k \in 1..Len(subtitle) : emitted.lines[4 * k - 3] = NatStr(k)
              /\ \A k \in 1..(Len(subtitle) - 1) : SrtStart(k) <= SrtStart(k + 1)
        /\ emitted.exporter = "MicroDVD" =>
              \A k \in 2..(Len(emitted.lines) - 1) : SubStart(k) <= SubStart(k + 1)

\* the start of the time line of a block of a SubRip document
BlockStart(block) == _parse_timestamp(Strip(SplitOn(block.time, <<"-", "-", ">">>, -1)[1]))[1]

\* C7's case: a SubRip document whose second block starts before its first
\* was parsed, and the SubRip exporter has emitted its two cues.
EmittedInStartOrderWitness ==
    /\ pc = "exported" /\ input.format = "srt" /\ Len(input.blocks) = 2
    /\ BlockStart(input.blocks[2]) < BlockStart(input.blocks[1])
    /\ Len(outputs) = 1 /\ outputs[1].exporter = "SubRip"
    /\ Len(emitted.lines) = 8

\* C8: the to_string calls of one exporter on the same Subtitle all return
\* the same string.
ToStringRepeats ==
    \A i, j \in 1..Len(outputs) :
        outputs[i].exporter = outputs[j].exporter => outputs[i].ret = outputs[j].ret

\* C8's case: an exporter was called twice on a Subtitle of two different
\* cues with the same start, where an unstable sort would be free to reorder.
ToStringRepeatsWitness ==
    /\ pc = "exported" /\ Len(outputs) = 2
    /\ outputs[1].exporter = outputs[2].exporter
    /\ Len(subtitle) = 2 /\ subtitle[1].start = subtitle[2].start
    /\ subtitle[1] # subtitle[2]
    /\ outputs[1].ret # << >>

\* the same cues, each as many times, in whatever order
SameCues(before, after) ==
    /\ Len(before) = Len(after)
    /\ \A n \in 1..Len(before) :
           Cardinality({k \in 1..Len(before) : before[k] = before[n]})
               = Cardinality({k \in 1..Len(after) : after[k] = before[n]})

\* C9: a to_string call, of either exporter, returning or raising, leaves
\* every cue of the Subtitle as it was: start, end, text and formattings with
\* their offsets; only the order of the cues in the list may change.
ExportLeavesCuesUnchanged ==
    [][(pc \in {"parsed", "exported"}) => SameCues(subtitle, subtitle')]_vars

\* C9's case: the cues of a document whose blocks were out of order have
\* been exported and reordered by the sort, the first with a colour span on
\* its second line.
ExportLeavesCuesUnchangedWitness ==
    /\ pc = "exported" /\ input.format = "srt" /\ Len(input.blocks) = 2
    /\ BlockStart(input.blocks[2]) < BlockStart(input.blocks[1])
    /\ Len(subtitle) = 2 /\ subtitle[1].start < subtitle[2].start
    /\ \E n \in 1..Len(subtitle[1].formattings) :
           /\ subtitle[1].formattings[n].type = "Color"
           /\ subtitle[1].formattings[n].start = 2 /\ subtitle[1].formattings[n].end = 3
    /\ outputs[Len(outputs)].exporter = "SubRip"

\* A canonical SubRip document: index lines 1, 2, ... (as SrtDocument writes
\* them), time lines HH:MM:SS,mmm --> HH:MM:SS,mmm with ascending starts, and
\* contents whose only markup is properly closed b, i, u, s and font elements.
Canonical(doc) ==
    /\ doc.format = "srt" /\ Len(doc.blocks) >= 1
    /\ \A k \in 1..Len(doc.blocks) : ~Contains(doc.blocks[k].content, <<"{">>)
    /\ \A k \in 1..(Len(doc.blocks) - 1) :
           BlockStart(doc.blocks[k]) < BlockStart(doc.blocks[k + 1])

\* C10 as stated: parsing a canonical SubRip document and exporting the
\* result with the SubRip exporter gives the document back, line for line.
RoundTripIsIdentity ==
    (Canonical(input) /\ Len(outputs) >= 1 /\ outputs[1].exporter = "SubRip")
        => SplitLines(outputs[1].ret) = SplitLines(input.text)

(***************************************************************************)
(* MicroDVD documents: MicroDVDParser(24.0).parse_text on a text of up to   *)
(* MaxSubLines lines, then MicroDVDExporter(24.0).to_string on what it       *)
(* returned.  The parser object is kept in the variable parser.            *)
(***************************************************************************)

MaxSubLines == 2

SubLines ==
    {
      \* {1}{1}24.0 : the frame rate line of a 24.0 fps file
      <<"{", "1", "}", "{", "1", "}", "2", "4", ".", "0">>,
      \* {1}{1}25 : a frame rate line that changes the rate
      <<"{", "1", "}", "{", "1", "}", "2", "5">>,
      \* {1}{2}a
      <<"{", "1", "}", "{", "2", "}", "a">>,
      \* {24}{48}{Y:b}ab|{y:i}cd
      <<"{", "2", "4", "}", "{", "4", "8", "}", "{", "Y", ":", "b", "}", "a", "b", "|",
      "{", "y", ":", "i", "}", "c", "d">>,
      \* {DEFAULT}{}{f:Arial}
      <<"{", "D", "E", "F", "A", "U", "L", "T", "}", "{", "}", "{", "f", ":", "A", "r",
      "i", "a", "l", "}">>,
      \* {48}{}x : an empty end
      <<"{", "4", "8", "}", "{", "}", "x">>,
      \* {72}{96}y
      <<"{", "7", "2", "}", "{", "9", "6", "}", "y">>,
      \* {1}{x}a : an end that is no number
      <<"{", "1", "}", "{", "x", "}", "a">>,
      \* hello : no {start}{end} at all
      <<"h", "e", "l", "l", "o">> }

SubDocuments ==
    { [format |-> "sub", lines |-> b, text |-> Join(b, <<"\n">>)] :
        b \in UNION {[1..n -> SubLines] : n \in 0..MaxSubLines} }

MdvdInit ==
    /\ pc = "start"
    /\ input \in SubDocuments
    /\ hashseed \in 0..1
    /\ parser = MicroDVDParser(24000)
    /\ subtitle = << >> /\ outputs = << >>
    /\ emitted = [exporter |-> "none", lines |-> << >>]
    /\ tag_parser = NewTagParser /\ events = << >>
    /\ nlines = 0 /\ accepted = << >>
    /\ injector = << >> /\ times = << >>

\* parser.parse_text(input); subtitle is the Subtitle it returns
ParseText ==
    /\ pc = "start"
    /\ LET Done(r) ==
               /\ pc' = IF r.raised THEN "raised" ELSE "parsed"
               /\ parser' = r.self
               /\ subtitle' = IF r.raised THEN subtitle ELSE r.self.subtitle
       IN  Done(MicroDVD_parse_text(parser, input.text, hashseed))
    /\ UNCHANGED <<tag_parser, events, nlines, accepted, input, hashseed, outputs, emitted,
                 injector, times>>

MdvdNext == ParseText \/ ExportMicroDVD

SpecMdvd == MdvdInit /\ [][MdvdNext]_vars

\* A canonical MicroDVD document for the frame rate 24.0: the line {1}{1}24.0,
\* then cue lines {start}{end}content with numeric frames, start below end,
\* ascending starts and a content that is not empty.  The control codes of
\* SubLines are all supported ones.
CanonicalSub(doc) ==
    LET Frames(m) == <<ParseInt(m[1].start, 10), ParseInt(m[1].end, 10)>>
        IsCue(m) == /\ m # None /\ m[1].content # << >>
                    /\ None \notin {Frames(m)[1], Frames(m)[2]}
                    /\ Frames(m)[1][1] < Frames(m)[2][1]
        Start(k) == ParseInt(SUB_REGEX_match(doc.lines[k])[1].start, 10)[1]
    IN  /\ Len(doc.lines) >= 2
        /\ doc.lines[1] = <<"{", "1", "}", "{", "1", "}">> \o FloatStr(24000)
        /\ \A k \in 2..Len(doc.lines) : IsCue(SUB_REGEX_match(doc.lines[k]))
        /\ \A k \in 2..(Len(doc.lines) - 1) : Start(k) < Start(k + 1)

\* C11 as stated: parsing a canonical MicroDVD document and exporting the
\* result at the same frame rate gives the document back, line for line.
\* Frame 1 at 24.0 is 41 ms, and 41 ms is frame 0.
MicroDVDRoundTripIsIdentity ==
    (CanonicalSub(input) /\ Len(outputs) >= 1 /\ outputs[1].exporter = "MicroDVD")
        => SplitLines(outputs[1].ret) = input.lines

\* The cue of the merge example: the two lines ab and cd, Bold over the whole
\* text and Italic over cd
IsMergeCue(unit) ==
    /\ unit.text = <<"a", "b", "\n", "c", "d">>
    /\ {unit.formattings[n] : n \in 1..Len(unit.formattings)} = {Bold(0, 5), Italic(3, 5)}

\* the contents of the lines the last to_string call wrote for the merge cues
MergeContents ==
    {SUB_REGEX_match(emitted.lines[n])[1].content :
        n \in {n \in 2..Len(emitted.lines) : Contains(emitted.lines[n], <<"a", "b", "|">>)}}

\* C14 as stated: the merge cue is rendered with the content {y:b}ab|{y:i}cd.
MergeRendersLowerCaseBold ==
    (pc = "exported" /\ \E k \in 1..Len(subtitle) : IsMergeCue(subtitle[k]))
        => <<"{", "y", ":", "b", "}", "a", "b", "|", "{", "y", ":", "i", "}", "c", "d">> \in MergeContents

\* C14: the merge cue is rendered with the content {Y:b}ab|{y:i}cd, the code
\* of the formatting that spans the whole text in upper case.
MergeRendersGlobalBold ==
    (pc = "exported" /\ \E k \in 1..Len(subtitle) : IsMergeCue(subtitle[k]))
        => MergeContents = {<<"{", "Y", ":", "b", "}", "a", "b", "|", "{", "y", ":", "i", "}", "c", "d">>}

MergeRendersGlobalBoldWitness ==
    /\ pc = "exported" /\ Len(subtitle) = 1 /\ IsMergeCue(subtitle[1])
    /\ Len(emitted.lines) = 2

\* C15 as stated: after a {DEFAULT} line that holds {f:Arial}, every cue of a
\* following line that names no f code of its own carries a FontFace with the
\* face Arial over its whole text (no cue line of SubLines names an f code).
\* _parse_default stores the value in lower case: the face is arial.
DefaultFaceIsArial ==
    (pc = "parsed" /\ Len(input.lines) >= 2 /\ input.lines[1] = <<"{", "D", "E", "F", "A", "U", "L", "T", "}", "{", "}", "{", "f", ":", "A", "r", "i", "a", "l", "}">>)
        => \A k \in 1..Len(subtitle) :
               \E n \in 1..Len(subtitle[k].formattings) :
                   subtitle[k].formattings[n]
                       = FontFace(0, Len(subtitle[k].text), <<"A", "r", "i", "a", "l">>)

\* C16 as stated: parse_text raises for no text.  It raises IndexError for
\* the empty text (sub_lines[0]) and ValueError for an end that is neither
\* empty nor a number (int(end_str)).
ParseTextNeverRaises == ~(pc = "raised" /\ emitted.exporter = "none")

\* C17 as stated: a first line {1}{1}25 sets the frame rate of the parser to
\* 25.0 and is no cue of the returned Subtitle, which so holds a cue for the
\* lines after the first at most.  The rate is set, and the loop over
\* sub_lines then parses the line as a cue with the text 25.
RateLineIsNoCue ==
    (pc = "parsed" /\ Len(input.lines) >= 1 /\ input.lines[1] = <<"{", "1", "}", "{", "1", "}", "2", "5">>)
        => /\ parser.fps = 25000
           /\ Len(subtitle) <= Len(input.lines) - 1

\* C18: a cue whose line has an empty end ends at the start of the cue of the
\* next line that gives one, or 8000 ms after its own start when no line
\* gives one; a cue whose line names its end ends at that frame, whatever the
\* later lines are.  The cues are those of the lines {start}{end}content with
\* a numeric start, in their order.
DeferredEnds ==
    LET IsCueLine(line) ==
            LET Numeric(m) == m # None /\ ParseInt(m[1].start, 10) # None
            IN  Numeric(SUB_REGEX_match(line))
        Ends(cue_lines) ==
            /\ Len(subtitle) = Len(cue_lines)
            /\ \A k \in 1..Len(cue_lines) :
                   LET End(m) ==
                           IF m.end # << >>
                           THEN from_frame(ParseInt(m.end, 10)[1], parser.fps)[1]
                           ELSE IF k < Len(cue_lines) THEN subtitle[k + 1].start
                           ELSE subtitle[k].start + 8000
                   IN  subtitle[k].end = End(SUB_REGEX_match(cue_lines[k])[1])
    IN  (pc = "parsed") => Ends(SelectSeq(input.lines, IsCueLine))

DeferredEndsWitness ==
    /\ pc = "parsed"
    /\ input.lines = <<<<"{", "4", "8", "}", "{", "}", "x">>, <<"{", "7", "2", "}", "{", "9", "6", "}", "y">>>>
    /\ Len(subtitle) = 2 /\ subtitle[1].end = 3000 /\ subtitle[2].end = 4000

\* C30: the line {DEFAULT}{}{f:Arial} makes no cue, every line with a numeric
\* start makes one; the cues of the lines after the first DEFAULT line have
\* the FontFace of the default over their whole text, and the cues of the
\* lines before it have no FontFace.
DefaultsReachLaterCuesOnly ==
    pc = "parsed" =>
        LET IsCueLine(m) ==
                /\ m # None /\ m[1].start # << >>
                /\ \A k \in 1..Len(m[1].start) : IsDigit(m[1].start[k])
            CuesUpTo(k) ==
                Cardinality({j \in 1..k : IsCueLine(SUB_REGEX_match(input.lines[j]))})
            HasFace(n) ==
                \E i \in 1..Len(subtitle[n].formattings) :
                    subtitle[n].formattings[i]
                        = FontFace(0, Len(subtitle[n].text), <<"a", "r", "i", "a", "l">>)
            HasNoFace(n) ==
                \A i \in 1..Len(subtitle[n].formattings) :
                    subtitle[n].formattings[i].type # "FontFace"
        IN  /\ Len(subtitle) = CuesUpTo(Len(input.lines))
            /\ \A k \in 1..Len(input.lines) :
                  (/\ input.lines[k] = <<"{", "D", "E", "F", "A", "U", "L", "T", "}", "{", "}", "{", "f", ":", "A", "r", "i", "a", "l", "}">>
                   /\ \A j \in 1..(k - 1) : input.lines[j] # <<"{", "D", "E", "F", "A", "U", "L", "T", "}", "{", "}", "{", "f", ":", "A", "r", "i", "a", "l", "}">>)
                      => /\ CuesUpTo(k) = CuesUpTo(k - 1)
                         /\ \A n \in 1..Len(subtitle) :
                               IF n <= CuesUpTo(k) THEN HasNoFace(n) ELSE HasFace(n)

(***************************************************************************)
(* MicroDVDParser._parse_content on one cue content                        *)
(***************************************************************************)

MaxPieces == 4

\* the pieces a content is made of: a global code, two per-line codes, a
\* character and the line separator
ContentPieces == { <<"{", "Y", ":", "b", "}">>, <<"{", "y", ":", "i", "}">>, <<"{", "y", ":", "u", "}">>, <<"a">>, <<"|">> }

Contents == { Concat(c) : c \in UNION {[1..n -> ContentPieces] : n \in 0..MaxPieces} }

ContentInit ==
    /\ pc = "content"
    /\ input \in Contents
    /\ hashseed \in 0..1
    /\ parser = MicroDVDParser(24000)
    /\ outputs = << >>
    /\ subtitle = << >> /\ emitted = << >>
    /\ tag_parser = NewTagParser /\ events = << >>
    /\ nlines = 0 /\ accepted = << >>
    /\ injector = << >> /\ times = << >>

\* parser._parse_content(input); outputs holds the pair it returns
ParseContent ==
    /\ pc = "content"
    /\ LET Done(r) ==
               /\ pc' = IF r = None THEN "raised" ELSE "parsed"
               /\ outputs' = r
       IN  Done(_parse_content(parser, input, hashseed))
    /\ UNCHANGED <<tag_parser, events, parser, nlines, accepted, input, subtitle, emitted,
                   hashseed, injector, times>>

ContentNext == ParseContent

SpecContent == ContentInit /\ [][ContentNext]_vars

\* s without its control codes, the runs from a { to the next }
RECURSIVE Unbrace(_)
Unbrace(s) ==
    LET From(i) ==
            IF i < 0 THEN s
            ELSE Slice(s, 0, i) \o Unbrace(Slice(s, Find(s, <<"}">>, i) + 1, Len(s)))
    IN  From(Find(s, <<"{">>, 0))

\* s_i: the summed len(L_j) + 1 of the lines before line i (lines from 1)
RECURSIVE LineStart(_, _)
LineStart(lines, i) ==
    IF i <= 1 THEN 0 ELSE LineStart(lines, i - 1) + Len(Unbrace(lines[i - 1])) + 1

MaxSpans == 1

\* two texts of five characters: two lines, and three lines
CueTexts == { <<"a", "b", "\n", "c", "d">>, <<"a", "\n", "b", "\n", "c">> }

\* Bold and Italic over every span 0 <= start <= end <= 5
CueSpans ==
    UNION { {Bold(span[1], span[2]), Italic(span[1], span[2])} :
                span \in {sp \in (0..5) \X (0..5) : sp[1] <= sp[2]} }

CueInit ==
    /\ pc = "built"
    /\ \E text \in CueTexts :
          \E fs \in UNION {[1..n -> CueSpans] : n \in 0..MaxSpans} :
              subtitle = <<SubtitleUnit(1000, 2000, text, fs)>>
    /\ hashseed \in 0..1
    /\ outputs = << >>
    /\ emitted = [exporter |-> "none", lines |-> << >>]
    /\ input = << >> /\ parser = << >>
    /\ tag_parser = NewTagParser /\ events = << >>
    /\ nlines = 0 /\ accepted = << >>
    /\ injector = << >> /\ times = << >>

\* MicroDVDExporter().to_string(subtitle)
ExportCue ==
    /\ pc = "built"
    /\ LET Done(r) ==
               /\ pc' = IF r.raised THEN "raised" ELSE "exported"
               /\ subtitle' = r.subtitle
               /\ emitted' = [exporter |-> "MicroDVD", lines |-> r.lines]
               /\ outputs' = IF r.raised THEN outputs
                             ELSE Append(outputs, [exporter |-> "MicroDVD", ret |-> r.ret])
       IN  Done(MicroDVD_to_string(MicroDVDExporter(24000), subtitle, hashseed))
    /\ UNCHANGED <<tag_parser, events, parser, nlines, accepted, input, hashseed, injector,
                   times>>

CueNext == ExportCue

SpecCue == CueInit /\ [][CueNext]_vars

\* line i (from 0) of the content has a y code in the given case whose value
\* holds the letter
HasCode(content, i, identifier, letter) ==
    LET lines == SplitOn(content, <<"|">>, -1)
        Is(parts) == Len(parts) = 2 /\ parts[1] = identifier /\ Contains(parts[2], letter)
        In(codes) == \E n \in 1..Len(codes) : Is(SplitOn(codes[n], <<":">>, -1))
    IN  i < Len(lines) /\ In(CONTROL_CODE_REGEX_finditer(lines[i + 1], 0))

\* C31: in the line written for a cue whose spans are not empty, the letter of
\* a style stands in an upper-case code on line 0 exactly when a span of the
\* style covers the whole text, and in a lower-case code on line i exactly when
\* a span of the style that does not cover the whole text holds a character of
\* line i (its newline counted with the line).
CodesOnIntersectingLines ==
    (pc = "exported" /\ \A n \in 1..Len(subtitle[1].formattings) :
                            subtitle[1].formattings[n].start < subtitle[1].formattings[n].end)
        => LET Letter(f) == IF f.type = "Bold" THEN <<"b">> ELSE <<"i">>
               Whole(f, text) == f.start = 0 /\ f.end = Len(text)
               Hits(f, lines, i) ==
                   /\ f.start < line_length_accumulate(lines, i + 1)
                   /\ line_length_accumulate(lines, i) < f.end
               Check(unit, lines, content) ==
                   \A letter \in {<<"b">>, <<"i">>} :
                       /\ HasCode(content, 0, <<"Y">>, letter)
                              <=> \E n \in 1..Len(unit.formattings) :
                                     /\ Letter(unit.formattings[n]) = letter
                                     /\ Whole(unit.formattings[n], unit.text)
                       /\ \A i \in 0..(Len(lines) - 1) :
                              HasCode(content, i, <<"y">>, letter)
                                  <=> \E n \in 1..Len(unit.formattings) :
                                         /\ Letter(unit.formattings[n]) = letter
                                         /\ ~Whole(unit.formattings[n], unit.text)
                                         /\ Hits(unit.formattings[n], lines, i)
           IN  Check(subtitle[1], SplitOn(subtitle[1].text, <<"\n">>, -1),
                     SUB_REGEX_match(emitted.lines[2])[1].content)

(***************************************************************************)
(* An HTMLInjector with the SubRip rules: add_formattings and clear in any  *)
(* order, then inject on the text 0123456789                               *)
(***************************************************************************)

MaxMarks == 2
MaxClears == 1
MaxInjects == 2

InjectText == <<"0", "1", "2", "3", "4", "5", "6", "7", "8", "9">>

\* the formattings handed to add_formattings, one a call
InjectSpans ==
    LET Over(span) == {Bold(span[1], span[2]), Italic(span[1], span[2]),
                       FontFace(span[1], span[2], <<"A">>)}
    IN  UNION {Over(span) : span \in {<<0, 10>>, <<2, 8>>, <<0, 2>>, <<8, 10>>, <<2, 2>>}}

\* accepted holds the formattings added since the most recent clear, nlines
\* counts the calls of clear, outputs holds what the calls of inject made since
\* the registry last changed returned
InjectIdle == UNCHANGED <<tag_parser, events, parser, input, subtitle, emitted, hashseed,
                          times>>

InjectInit ==
    /\ pc = "injector"
    /\ injector = HTMLInjector(SubRipRules)
    /\ input = InjectText
    /\ outputs = << >>
    /\ tag_parser = NewTagParser /\ events = << >>
    /\ parser = << >> /\ nlines = 0 /\ accepted = << >>
    /\ subtitle = << >> /\ emitted = << >>
    /\ hashseed = 0 /\ times = << >>

\* injector.add_formattings([formatting])
AddFormattings ==
    /\ pc \in {"injector", "injected"} /\ Len(accepted) < MaxMarks
    /\ \E formatting \in InjectSpans :
          /\ injector' = add_formattings(injector, <<formatting>>)
          /\ accepted' = Append(accepted, formatting)
    /\ pc' = "injector" /\ outputs' = << >>
    /\ UNCHANGED nlines /\ InjectIdle

\* injector.clear()
Clear ==
    /\ pc \in {"injector", "injected"} /\ injector.marks # << >> /\ nlines < MaxClears
    /\ injector' = clear(injector)
    /\ accepted' = << >> /\ nlines' = nlines + 1
    /\ pc' = "injector" /\ outputs' = << >>
    /\ InjectIdle

\* injector.inject(input)
Inject ==
    /\ pc \in {"injector", "injected"} /\ Len(outputs) < MaxInjects
    /\ pc' = "injected"
    /\ outputs' = Append(outputs, inject(injector, input))
    /\ UNCHANGED <<injector, accepted, nlines>> /\ InjectIdle

InjectNext == AddFormattings \/ Clear \/ Inject

SpecInject == InjectInit /\ [][InjectNext]_vars

\* C12: with the SubRip rules, a registry of Bold(0, 10) and Italic(2, 8),
\* registered in either order, injected into 0123456789 gives
\* <b>01<i>234567</i>89</b>.
NestingExample ==
    (pc = "injected"
     /\ {injector.marks[k].key : k \in 1..Len(injector.marks)}
            = {<<0, 10, <<"b">> >>, <<2, 8, <<"i">> >>})
        => outputs[1] = <<"<", "b", ">", "0", "1", "<", "i", ">", "2", "3", "4", "5", "6", "7", "<", "/", "i", ">", "8", "9", "<", "/", "b", ">">>

NestingExampleWitness ==
    /\ pc = "injected" /\ Len(injector.marks) = 2
    /\ injector.marks[1].key = <<2, 8, <<"i">> >>
    /\ injector.marks[2].key = <<0, 10, <<"b">> >>
    /\ Len(outputs[1]) = Len(InjectText) + 14

\* No two spans of the registry cross: each pair is nested or disjoint
NestedOrDisjoint(marks) ==
    \A j, k \in 1..Len(marks) :
        ~(marks[j].key[1] < marks[k].key[1] /\ marks[k].key[1] < marks[j].key[2]
          /\ marks[j].key[2] < marks[k].key[2])

\* Every closing tag of s names the tag opened last among those still open
\* (the text between the tags holds no < of its own)
WellNested(s) ==
    LET Name(tag) == Slice(tag, 0, First({k \in 0..(Len(tag) - 1) : tag[k + 1] = " "}, Len(tag)))
        RECURSIVE Scan(_, _)
        Scan(i, open) ==
            LET Tag(inner) ==
                    IF Head(inner) = "/"
                    THEN open # << >> /\ open[Len(open)] = Tail(inner)
                         /\ Scan(Find(s, <<"<">>, i + 1), SubSeq(open, 1, Len(open) - 1))
                    ELSE Scan(Find(s, <<"<">>, i + 1), Append(open, Name(inner)))
            IN  IF i < 0 THEN TRUE
                ELSE Tag(Slice(s, i + 1, Find(s, <<">">>, i)))
    IN  Scan(Find(s, <<"<">>, 0), << >>)

\* C13 as stated: when no two spans of the registry cross, the injected
\* markup is correctly nested.  The tags at one offset are ordered by the rank
\* of their tag and not by the extent of their span: Bold(0, 2) inside
\* Italic(0, 10) gives <b><i>01</b>234567</i>, and a Bold(2, 2) gives </b><b>.
NestedSpansGiveNestedMarkup ==
    (pc = "injected" /\ NestedOrDisjoint(injector.marks)) => WellNested(outputs[1])

\* s without its tags, the runs from a < to the next >
RECURSIVE Untag(_)
Untag(s) ==
    LET From(i) ==
            IF i < 0 THEN s
            ELSE Slice(s, 0, i) \o Untag(Slice(s, Find(s, <<">">>, i) + 1, Len(s)))
    IN  From(Find(s, <<"<">>, 0))

\* C26: when every span of the registry lies within [0, len(text)], the
\* injected string holds two tags a mark and is the text once they are deleted,
\* and every mark has its opening tag at a place with start characters of the
\* text before it and its closing tag at a place with end characters before it.
InjectOnlyInsertsTags ==
    (/\ pc = "injected"
     /\ \A k \in 1..Len(injector.marks) :
           /\ 0 <= injector.marks[k].key[1] /\ injector.marks[k].key[1] <= Len(input)
           /\ 0 <= injector.marks[k].key[2] /\ injector.marks[k].key[2] <= Len(input))
        => LET Lands(out, tag, n) ==
                   \E i \in 0..(Len(out) - Len(tag)) :
                       /\ Slice(out, i, i + Len(tag)) = tag
                       /\ out[i + Len(tag) + 1] \in {" ", ">"}
                       /\ Len(Untag(Slice(out, 0, i))) = n
               Check(out) ==
                   /\ Untag(out) = input
                   /\ Cardinality({i \in 1..Len(out) : out[i] = "<"}) = 2 * Len(injector.marks)
                   /\ \A k \in 1..Len(injector.marks) :
                         /\ Lands(out, <<"<">> \o injector.marks[k].key[3],
                                  injector.marks[k].key[1])
                         /\ Lands(out, <<"<", "/">> \o injector.marks[k].key[3],
                                  injector.marks[k].key[2])
           IN  Check(outputs[Len(outputs)])

\* C26's case: a span that ends where another starts, and both are injected
InjectOnlyInsertsTagsWitness ==
    /\ pc = "injected"
    /\ accepted = <<Italic(0, 2), Bold(2, 8)>>
    /\ outputs = <<<<"<", "i", ">", "0", "1", "<", "/", "i", ">", "<", "b", ">", "2", "3", "4", "5", "6", "7", "<", "/", "b", ">", "8", "9">>>>

\* C27: every string inject returned is what a new injector holding the
\* formattings added since the most recent clear returns, the text itself when
\* there are none; and a call of inject leaves the registry as it was, so that
\* the strings of consecutive calls are equal.
InjectRendersAddedSinceClear ==
    /\ [](pc = "injected"
            => \A k \in 1..Len(outputs) :
                  outputs[k] = IF accepted = << >> THEN input
                               ELSE inject(add_formattings(HTMLInjector(SubRipRules),
                                                           accepted), input))
    /\ [][(Len(outputs') > Len(outputs)) => injector' = injector]_vars

\* C27's case: formattings were added and cleared, Bold(0, 10) was added after
\* the clear and inject was called twice
InjectRendersAddedSinceClearWitness ==
    /\ pc = "injected" /\ nlines = 1
    /\ accepted = <<Bold(0, 10)>>
    /\ outputs = <<<<"<", "b", ">", "0", "1", "2", "3", "4", "5", "6", "7", "8", "9", "<", "/", "b", ">">>, <<"<", "b", ">", "0", "1", "2", "3", "4", "5", "6", "7", "8", "9", "<", "/", "b", ">">>>>

\* C28: the injected string does not depend on the order in which the
\* formattings were added: adding them in any other order to a new injector
\* gives the same string.
InjectIgnoresOrderOfAdding ==
    pc = "injected" =>
        \A p \in [1..Len(accepted) -> 1..Len(accepted)] :
            (\A i, j \in 1..Len(accepted) : p[i] = p[j] => i = j)
                => outputs[Len(outputs)]
                       = inject(add_formattings(HTMLInjector(SubRipRules),
                                                [i \in 1..Len(accepted) |-> accepted[p[i]]]),
                                input)

(***************************************************************************)
(* Time objects: two of them, a and b, the frame conversions and the three *)
(* forms of subtraction.  log holds a record of every call made.  On the   *)
(* values these calls reach, the float arithmetic of the conversions gives *)
(* the whole numbers of TruncDiv.                                          *)
(***************************************************************************)

MaxOps == 2

TimeIdle == UNCHANGED <<pc, tag_parser, events, parser, nlines, accepted, input, subtitle,
                        outputs, emitted, hashseed, injector>>

TimeInit ==
    /\ pc = "times"
    /\ times \in [a : {0, 40, 41, 1000}, b : {0, 40, 41, 1000}, log : {<< >>}]
    /\ tag_parser = NewTagParser /\ events = << >>
    /\ parser = << >> /\ nlines = 0 /\ accepted = << >>
    /\ input = << >> /\ subtitle = << >> /\ outputs = << >> /\ emitted = << >>
    /\ hashseed = 0 /\ injector = << >>

\* a = Time.from_frame(frame, framerate)
FromFrame ==
    /\ Len(times.log) < MaxOps
    /\ \E frame \in {0, 1, 24, 25}, framerate \in {24000, 25000} :
           LET Done(time) ==
                   times' = [times EXCEPT !.a = time[1],
                                          !.log = Append(@, [op |-> "from_frame",
                                                             args |-> <<frame, framerate>>,
                                                             ret |-> time[1]])]
           IN  Done(from_frame(frame, framerate))
    /\ TimeIdle

\* a.to_frame(framerate)
ToFrame ==
    /\ Len(times.log) < MaxOps
    /\ \E framerate \in {24000, 25000} :
           times' = [times EXCEPT !.log = Append(@, [op |-> "to_frame",
                                                     args |-> <<times.a, framerate>>,
                                                     ret |-> to_frame(times.a, framerate)])]
    /\ TimeIdle

\* a - b
Sub ==
    /\ Len(times.log) < MaxOps
    /\ times' = [times EXCEPT !.log = Append(@, [op |-> "sub", args |-> <<times.a, times.b>>,
                                                 ret |-> __sub__(times.a, times.b)])]
    /\ TimeIdle

\* a -= b
ISub ==
    /\ Len(times.log) < MaxOps
    /\ LET Done(self) ==
               times' = [times EXCEPT !.a = self,
                                      !.log = Append(@, [op |-> "isub",
                                                         args |-> <<times.a, times.b>>,
                                                         ret |-> self])]
       IN  Done(__isub__(times.a, times.b))
    /\ TimeIdle

\* b.milliseconds - a: int has no subtraction of a Time, so a.__rsub__ runs
RSub ==
    /\ Len(times.log) < MaxOps
    /\ times' = [times EXCEPT !.log = Append(@, [op |-> "rsub", args |-> <<times.a, times.b>>,
                                                 ret |-> __rsub__(times.a, times.b)])]
    /\ TimeIdle

TimeNext == FromFrame \/ ToFrame \/ Sub \/ ISub \/ RSub

SpecTime == TimeInit /\ [][TimeNext]_vars

\* C19: Time.from_frame(25, 25) is Time(1000), and Time(1000).to_frame(25) is 25.
FramesAtTwentyFive ==
    \A n \in 1..Len(times.log) :
        /\ (times.log[n].op = "from_frame" /\ times.log[n].args = <<25, 25000>>)
               => times.log[n].ret = 1000
        /\ (times.log[n].op = "to_frame" /\ times.log[n].args = <<1000, 25000>>)
               => times.log[n].ret = 25

FramesAtTwentyFiveWitness ==
    /\ Len(times.log) = 2
    /\ times.log[1] = [op |-> "from_frame", args |-> <<25, 25000>>, ret |-> 1000]
    /\ times.log[2] = [op |-> "to_frame", args |-> <<1000, 25000>>, ret |-> 25]

\* C36: a to_frame called right after from_frame, on the time it made and at
\* its frame rate, returns the frame from_frame was called with.
FrameRoundTrip ==
    \A n \in 2..Len(times.log) :
        (/\ times.log[n - 1].op = "from_frame"
         /\ times.log[n].op = "to_frame"
         /\ times.log[n].args = <<times.log[n - 1].ret, times.log[n - 1].args[2]>>)
            => times.log[n].ret = times.log[n - 1].args[1]

\* C20 as stated: for a and b that are not negative, each form of the
\* subtraction gives a Time of max(0, difference), the difference being a - b,
\* for the reflected form b - a, and a itself holds no negative value after.
\* Only a - b has the floor: a -= b and the reflected form give the plain
\* difference.
SubtractionFlooredAtZero ==
    LET max(x, y) == IF x > y THEN x ELSE y
        Difference(call) == IF call.op = "rsub" THEN call.args[2] - call.args[1]
                            ELSE call.args[1] - call.args[2]
    IN  \A n \in 1..Len(times.log) :
            (times.log[n].op \in {"sub", "isub", "rsub"}
             /\ times.log[n].args[1] >= 0 /\ times.log[n].args[2] >= 0)
                => times.log[n].ret = max(0, Difference(times.log[n]))

(***************************************************************************)
(* SubRipParser.parse_text, one turn of its loop at a time, with the lines *)
(* read so far kept in input                                               *)
(***************************************************************************)

MaxRead == 6

TextLines ==
    { <<"1">>, <<"0", "0", ":", "0", "0", ":", "0", "1", ",", "0", "0", "0", " ", "-", "-", ">", " ", "0", "0", ":", "0", "0", ":", "0", "2", ",", "0", "0", "0">>, <<"h", "i">>, << >> }

LinesIdle == UNCHANGED <<tag_parser, events, nlines, accepted, subtitle, outputs, emitted,
                         hashseed, injector, times>>

LinesInit ==
    /\ pc = "parsing"
    /\ parser = NewSubRipParser
    /\ input = << >>
    /\ nlines = 0 /\ accepted = << >>
    /\ tag_parser = NewTagParser /\ events = << >>
    /\ subtitle = << >> /\ outputs = << >> /\ emitted = << >>
    /\ hashseed = 0
    /\ injector = << >> /\ times = << >>

\* one turn of the loop of parse_text
ReadLine ==
    /\ pc = "parsing" /\ Len(input) < MaxRead
    /\ \E line \in TextLines :
           LET Turn(r) ==
                   /\ parser' = r.self
                   /\ pc' = IF r.raised THEN "raised" ELSE pc
           IN  /\ Turn(ParseLine(parser, line))
               /\ input' = Append(input, line)
    /\ LinesIdle

\* the lines are used up: the final flush, and parse_text returns
EndOfText ==
    /\ pc = "parsing"
    /\ parser' = ParseEnd(parser)
    /\ pc' = "parsed"
    /\ UNCHANGED input /\ LinesIdle

LinesNext == ReadLine \/ EndOfText

SpecLines == LinesInit /\ [][LinesNext]_vars

\* C21: the state of the parser is INDEX, TIME or CONTENT and never
\* BETWEEN_SUBS, and it changes only from INDEX to TIME on a line that parses
\* as an integer, from TIME to CONTENT on a line that holds -->, and from
\* CONTENT to INDEX on a blank line.
StateChanges ==
    /\ [](parser.state \in {"INDEX", "TIME", "CONTENT"})
    /\ [][(parser'.state # parser.state)
             => /\ Len(input') = Len(input) + 1
                /\ LET Change(line) ==
                           \/ /\ parser.state = "INDEX" /\ parser'.state = "TIME"
                              /\ _parse_index(line) # None
                           \/ /\ parser.state = "TIME" /\ parser'.state = "CONTENT"
                              /\ Contains(line, <<"-", "-", ">">>)
                           \/ /\ parser.state = "CONTENT" /\ parser'.state = "INDEX"
                              /\ line = << >>
                   IN  Change(Strip(input'[Len(input')]))]_vars

\* C21's case: an index line, a time line and a blank line have taken the
\* parser through the three states and back to INDEX
StateChangesWitness ==
    /\ pc = "parsing" /\ parser.state = "INDEX"
    /\ input = <<<<"1">>, <<"0", "0", ":", "0", "0", ":", "0", "1", ",", "0", "0", "0", " ", "-", "-", ">", " ", "0", "0", ":", "0", "0", ":", "0", "2", ",", "0", "0", "0">>, << >> >>

MisfitLineIsKept ==
    [][(/\ Len(input') = Len(input) + 1
        /\ LET Misfit(line) ==
                   \/ parser.state = "INDEX" /\ _parse_index(line) = None
                   \/ parser.state = "TIME" /\ ~Contains(line, <<"-", "-", ">">>)
           IN  Misfit(Strip(input'[Len(input')])))
          => parser'.temp_text
                 = parser.temp_text \o Strip(input'[Len(input')]) \o <<"\n">>]_vars

(***************************************************************************)
(* The exporters on parsed documents (SpecExport): the content line of the *)
(* SubRip exporter, the Subtitle a call leaves behind, and the calls that  *)
(* raise                                                                   *)
(***************************************************************************)

\* C32: in every content line the SubRip exporter writes, each Bold, Italic,
\* Underline and Strikethrough span of the cue has its tag <b>, <i>, <u>, <s>
\* after start characters of the text and the closing tag after end
\* characters, and each TextSize, FontFace and Color span has a <font ...> tag
\* and a </font> tag at those places.
ContentLineHoldsSpanTags ==
    (pc = "exported" /\ emitted.exporter = "SubRip") =>
        LET Name(f) ==
                CASE f.type = "Bold" -> <<"b">>
                  [] f.type = "Italic" -> <<"i">>
                  [] f.type = "Underline" -> <<"u">>
                  [] f.type = "Strikethrough" -> <<"s">>
                  [] OTHER -> <<"f", "o", "n", "t">>
            Lands(out, tag, n) ==
                \E i \in 0..(Len(out) - Len(tag)) :
                    /\ Slice(out, i, i + Len(tag)) = tag
                    /\ out[i + Len(tag) + 1] \in {" ", ">"}
                    /\ Len(Untag(Slice(out, 0, i))) = n
            Check(unit, out) ==
                /\ Untag(out) = unit.text
                /\ \A n \in 1..Len(unit.formattings) :
                      IsSpan(unit.formattings[n])
                          => /\ Lands(out, <<"<">> \o Name(unit.formattings[n]),
                                      unit.formattings[n].start)
                             /\ Lands(out, <<"<", "/">> \o Name(unit.formattings[n]),
                                      unit.formattings[n].end)
        IN  \A k \in 1..Len(subtitle) : Check(subtitle[k], Unbrace(emitted.lines[4 * k - 1]))

\* C37: a to_string call, of either exporter, returning or raising, leaves the
\* Subtitle as it was: the same cues at the same places of the list.
ExportLeavesSubtitleUnchanged ==
    [][(pc \in {"parsed", "exported"}) => subtitle' = subtitle]_vars

\* C38: to_string of a MicroDVDExporter does not raise on the Subtitle that
\* MicroDVDParser.parse_text returned for a document.
MicroDVDExportOfParsedDoesNotRaise ==
    [][(pc = "parsed" /\ input.format = "sub" /\ emitted'.exporter = "MicroDVD")
           => pc' # "raised"]_vars

(***************************************************************************)
(* A Time written by SubRipExporter._time_to_string and read back by       *)
(* SubRipParser._parse_timestamp                                           *)
(***************************************************************************)

\* times below 100 hours, with the least and the greatest value of each field
\* and values that need padding
StampTimes ==
    { from_human_time(ms, s, m, h) :
        ms \in {0, 1, 10, 100, 999}, s \in {0, 9, 59}, m \in {0, 5, 59},
        h \in {0, 1, 10, 99} }

StampInit ==
    /\ pc = "time"
    /\ \E t \in StampTimes : times = <<t>>
    /\ outputs = << >>
    /\ subtitle = << >> /\ emitted = << >>
    /\ input = << >> /\ parser = << >> /\ hashseed = 0
    /\ tag_parser = NewTagParser /\ events = << >>
    /\ nlines = 0 /\ accepted = << >>
    /\ injector = << >>

\* SubRipExporter._time_to_string(Time(times[1]))
TimeToString ==
    /\ pc = "time"
    /\ outputs' = <<_time_to_string(times[1])>>
    /\ pc' = "string"
    /\ UNCHANGED <<tag_parser, events, parser, nlines, accepted, input, subtitle, emitted,
                   hashseed, injector, times>>

\* SubRipParser._parse_timestamp(outputs[1])
ParseTimestamp ==
    /\ pc = "string"
    /\ LET Done(r) ==
               /\ pc' = IF r = None THEN "raised" ELSE "parsed"
               /\ times' = times \o r
       IN  Done(_parse_timestamp(outputs[1]))
    /\ UNCHANGED <<tag_parser, events, parser, nlines, accepted, input, subtitle, outputs,
                   emitted, hashseed, injector>>

StampNext == TimeToString \/ ParseTimestamp

SpecStamp == StampInit /\ [][StampNext]_vars

\* C33: the string written for a time below 100 hours is read back without an
\* exception, and as the time it was written for.
TimestampRoundTrip ==
    /\ pc # "raised"
    /\ pc = "parsed" => times[2] = times[1]

\* C33's case: 99:59:59,999, the greatest time of two hour digits
TimestampRoundTripWitness ==
    /\ pc = "parsed"
    /\ outputs = <<<<"9", "9", ":", "5", "9", ":", "5", "9", ",", "9", "9", "9">>>>
    /\ times = <<359999999, 359999999>>


====
